---- MODULE Spec2Model ----
(***************************************************************************)
(* PlannerPro: its storage layer.                                          *)
(*                                                                         *)
(* DatabaseStorageManager (src/unnamed/part_000, lines 1092-1813) keeps a  *)
(* pending-operation queue in memory and under the localStorage key        *)
(* plannerpro_pending_ops, task and expense lists under plannerpro_tasks   *)
(* and plannerpro_expenses, and talks to the remote API through fetch.     *)
(* Every await of the source is a suspension point: the code between two   *)
(* awaits is one action.  The remote API is server/api.js over             *)
(* server/storage.js.                                                      *)
(*                                                                         *)
(* StorageManager (src/unnamed/part_001) stores tasks and statistics in an *)
(* indexed backend (IndexedDB) when a probe finds one and in a flat        *)
(* backend (localStorage) otherwise.                                       *)
(* Its createAutoBackup keeps dated backups in localStorage.               *)
(*                                                                         *)
(* TaskManager (src/unnamed/part_002) keeps the task list of the page and  *)
(* saves through the storage component; NotificationManager                *)
(* (src/unnamed/part_001, from line 640) checks the stored tasks for due   *)
(* and overdue ones.                                                       *)
(***************************************************************************)
EXTENDS Integers, Sequences, FiniteSets, Bags, TLC

\* ---------------------------------------------------------------- bounds
MaxOps == 2       \* operations the facade may enqueue in one behaviour of Spec
MaxOrderOps == 3  \* ... of SpecOrder (the operations A, B, C)
MaxFacadeOps == 2 \* ... of SpecFacade
MaxQueue == 3     \* length of a pending-operation array
MaxDrains == 2    \* syncPendingOperations loops suspended at the same time
MaxRecs == 2      \* records in one localStorage collection
MaxClock == 0     \* Date.now() reads one of 0..MaxClock
MaxCalls == 3     \* facade calls in one behaviour of SpecRoundTrip and SpecTransfer
MaxDeleteCalls == 4 \* ... of SpecDelete
MaxSerial == 3    \* rows a remote table has ever held
MaxTmIds == 2     \* ids generateTaskId hands out in one behaviour
MaxRuns == 2      \* checkOverdueTasks runs suspended at one time
MaxShown == 2     \* 'Task Overdue!' notifications counted for one task
MaxTicks == 6     \* reminder periods the clock of the notifications advances to
MaxBkRuns == 2    \* createAutoBackup runs suspended at one time
MaxBkNow == 24    \* the last time the clock of the backups shows

\* ------------------------------------------------------------ value sets
Colls == {"tasks", "expenses"}
Titles == {"a", "b"}
TitlesOf(kind) == IF kind = "saveTask" THEN Titles ELSE {"a"}

\* A record id: absent, assigned by the server ("1"), or 'temp_' + Date.now()
NoId == [k |-> "none", v |-> 0]
SrvId(v) == [k |-> "srv", v |-> v]
TempId(t) == [k |-> "temp", v |-> t]
CallerIds == {NoId, SrvId(1)}

\* localStorage.getItem: null when the key is absent, else the stored text
Null == [has |-> FALSE, text |-> <<>>]
Item(text) == [has |-> TRUE, text |-> text]

VARIABLES
    isOnline,           \* this.isOnline
    remoteUp,           \* environment: the remote API answers requests
    pendingOperations,  \* this.pendingOperations
    lsPending,          \* localStorage[plannerpro_pending_ops] (Null when the key is absent)
    lsRecs,             \* localStorage[plannerpro_tasks], [plannerpro_expenses]
    remote,             \* rows of the remote store, by collection
    drains,             \* the suspended syncPendingOperations loops (a bag)
    initPc,             \* position of init()
    call,               \* the facade call suspended on makeApiRequest
    nextN,              \* history: number of the next enqueued operation
    issued,             \* history: the operations a replay call has been issued for
    scen,               \* history: saveTask; restart; getAllTasks with the remote down
    \* StorageManager (src/unnamed/part_001)
    smPc,               \* position of StorageManager.init()
    probe,              \* the promise, request and timer of checkIndexedDBSupport
    isIndexedDBAvailable, \* this.isIndexedDBAvailable
    db,                 \* this.db is an open connection
    idb,                \* the object stores of the indexed backend
    flat,               \* the keys of StorageManager in the flat backend
    smRet,              \* how the last call of a StorageManager method settled
    deleted,            \* history: ids deleted from the indexed backend, not saved since
    \* the remote database and the calls of the facade against it
    table,              \* rows of the remote tables, with their contents
    trail,              \* history: the last calls of the facade
    ret,                \* what the last getter of the facade returned
    exported,           \* what the last exportData returned
    \* the persisted text of the local collections and the readers over it
    raw,                \* localStorage, by key: absent, well-formed or malformed text
    rdRet,              \* how the last read method over raw settled
    \* TaskManager (src/unnamed/part_002)
    tmTasks,            \* this.tasks
    currentEditingTask, \* this.currentEditingTask
    tmCall,             \* the saveTask or importTasks suspended on storage.saveTask
    notice,             \* the title of the last NotificationManager.show of TaskManager
    tmSerial,           \* history: number of the next id of generateTaskId
    succeeded,          \* history: the queued operations a replay has succeeded for
    \* StorageManager.saveTask on the flat backend, step by step
    smSaving,           \* the saveTask calls suspended at await this.getAllTasks()
    savedIds,           \* history: the ids of the tasks whose saveTask has resolved
    \* NotificationManager (src/unnamed/part_001) beside TaskManager
    nmStore,            \* the object store 'tasks' that both components save to
    nmRuns,             \* the checkOverdueTasks runs, by slot
    tmCopy,             \* this.tasks of TaskManager, as loadTasks() left it
    nmNow,              \* the time, in minutes
    overdueShown,       \* history: 'Task Overdue!' shown for a task since its last snooze
    \* automatic backups of StorageManager
    lsBackups,          \* localStorage: the keys plannerpro_last_backup_<time>, by time
    bkRuns,             \* the createAutoBackup runs suspended at await this.exportData()
    bkNow,              \* Date.now()
    bkDropped           \* history: the latest time of a backup that was removed (0: none)

storeVars == <<smPc, probe, isIndexedDBAvailable, db, idb, flat, smRet, deleted>>

tableVars == <<table, trail, ret, exported>>

dbVars == <<isOnline, remoteUp, pendingOperations, lsPending, lsRecs, remote,
            drains, initPc, call, nextN, issued, scen>>

appVars == <<raw, rdRet>>

tmVars == <<tmTasks, currentEditingTask, tmCall, notice, tmSerial>>

histVars == <<succeeded>>

moreVars == <<smSaving, savedIds>>

nmVars == <<nmStore, nmRuns, tmCopy, nmNow, overdueShown>>

bkVars == <<lsBackups, bkRuns, bkNow, bkDropped>>

vars == <<dbVars, storeVars, tableVars, appVars, tmVars, histVars, moreVars, nmVars, bkVars>>

Clock == 0..MaxClock

\* ------------------------------------------------------- sequence helpers
RECURSIVE SelectIdx(_, _, _)
\* The first index i >= from of s with s[i].id = id, or 0 (findIndex)
SelectIdx(s, id, from) ==
    IF from > Len(s) THEN 0
    ELSE IF s[from].id = id THEN from
    ELSE SelectIdx(s, id, from + 1)

FindIndex(s, id) == SelectIdx(s, id, 1)

Filter(s, id) == SelectSeq(s, LAMBDA r : r.id # id)

Ns(s) == {s[i].n : i \in 1..Len(s)}

RECURSIVE SumCopies(_, _)
SumCopies(B, S) ==
    IF S = {} THEN 0
    ELSE LET e == CHOOSE x \in S : TRUE IN B[e] + SumCopies(B, S \ {e})

\* the bag of the F(e), e in bag B
BagMap(B, F(_)) ==
    [x \in {F(e) : e \in DOMAIN B} |-> SumCopies(B, {e \in DOMAIN B : F(e) = x})]

BagAdd(B, e) == B (+) SetToBag({e})
BagRemove(B, e) == B (-) SetToBag({e})

\* ------------------------------------------------------ operations, JSON
\* A pending operation {endpoint, options, timestamp}: n identifies the
\* enqueue, method is options.method ("undefined" when options has none),
\* coll and id are the collection and the record id of the endpoint or body.
Operation(n, method, coll, id) == [n |-> n, method |-> method, coll |-> coll, id |-> id]

\* JSON.stringify omits a key whose value is undefined
JSONStringify(q) ==
    [i \in 1..Len(q) |->
        [q[i] EXCEPT !.method = IF @ = "undefined" THEN "omitted" ELSE @]]

\* reading a key that the JSON text does not have yields undefined
JSONParse(text) ==
    [i \in 1..Len(text) |->
        [text[i] EXCEPT !.method = IF @ = "omitted" THEN "undefined" ELSE @]]

\* ------------------------------------------------- the queue, as a value
\* po: this.pendingOperations, ls: the persisted queue, dr: the drain loops.
\* A drain iterates the array that was this.pendingOperations when its loop
\* began; alias says that this array still is this.pendingOperations, so
\* that a push is seen by the loop.
QS(po, ls, dr) == [po |-> po, ls |-> ls, dr |-> dr]

CurQS == QS(pendingOperations, lsPending, drains)

\* this.pendingOperations = <a new array>
ReplaceArray(qs, newq) ==
    LET Unalias(d) == [d EXCEPT !.alias = FALSE]
    IN  QS(newq, qs.ls, BagMap(qs.dr, Unalias))

addPendingOperation(qs, op) ==
    LET po2 == Append(qs.po, op)
        Push(d) == IF d.alias THEN [d EXCEPT !.rest = Append(@, op)] ELSE d
    IN  QS(po2, Item(JSONStringify(po2)), BagMap(qs.dr, Push))

\* makeApiRequest, catch block: "if online but API fails, add to pending"
ShouldQueue(online, method) == online /\ method # "GET"

makeApiRequestCatch(qs, op, online) ==
    IF ShouldQueue(online, op.method) THEN addPendingOperation(qs, op) ELSE qs

\* ---------------------------------------------------------------- remote
\* What the server answers to a request that reaches it.  A PUT of an
\* expense updates the row parseInt(id) and fails (500) when there is none;
\* a save of a task with a string id inserts a row; the answer to a DELETE
\* of an id that is not a number is left open.
ServerOutcomes(op, rem) ==
    IF op.method = "PUT" /\ op.coll = "expenses"
    THEN {op.id.k = "srv" /\ op.id.v \in rem["expenses"]}
    ELSE IF op.method = "DELETE" /\ op.id.k # "srv" THEN {TRUE, FALSE}
    ELSE {TRUE}

\* fetch: the outcomes of a request, TRUE for response.ok
FetchOutcomes(op, rem, up) == IF up THEN ServerOutcomes(op, rem) ELSE {FALSE}

\* The rows left by a request the server has carried out (inserted rows get
\* new serial ids and are not tracked)
RemoteApply(rem, op) ==
    IF op.method = "DELETE" /\ op.id.k = "srv"
    THEN [rem EXCEPT ![op.coll] = @ \ {op.id.v}]
    ELSE rem

\* ----------------------------------------------------------- local store
\* (variant: a record that is not in the list yet is not pushed)
PutLocal_NoPush(list, rec, t) ==
    IF rec.id # NoId /\ FindIndex(list, rec.id) > 0
    THEN [list EXCEPT ![FindIndex(list, rec.id)] = rec]
    ELSE list

\* saveTaskToLocalStorage / saveExpenseToLocalStorage: the new list
PutLocal(list, rec, t) ==
    IF rec.id # NoId
    THEN LET index == FindIndex(list, rec.id)
         IN  IF index > 0 THEN [list EXCEPT ![index] = rec]
             ELSE Append(list, rec)
    ELSE Append(list, [rec EXCEPT !.id = TempId(t)])

\* ... and the record they return
PutLocalResult(rec, t) == IF rec.id # NoId THEN rec ELSE [rec EXCEPT !.id = TempId(t)]

\* deleteTaskFromLocalStorage / deleteExpenseFromLocalStorage
DeleteLocal(list, id) == Filter(list, id)

\* getTasksFromLocalStorage
getTasksFromLocalStorage(ls) == ls["tasks"]

HasRecord(list, rec) ==
    \E i \in 1..Len(list) :
        list[i].title = rec.title /\ (rec.id = NoId \/ list[i].id = rec.id)

HasId(list, id) == \E i \in 1..Len(list) : list[i].id = id

\* ------------------------------------------------------ history helpers
NoCall == [kind |-> "none", op |-> Operation(0, "undefined", "tasks", NoId),
           rec |-> [id |-> NoId, title |-> "a"]]

NoScen == [phase |-> 0, id |-> NoId, title |-> "a", found |-> FALSE]

\* the operation is the newest entry of the queue, in memory and persisted
IsQueued(qs, n) ==
    /\ Len(qs.po) > 0 /\ qs.po[Len(qs.po)].n = n
    /\ qs.ls.has /\ Len(qs.ls.text) > 0 /\ qs.ls.text[Len(qs.ls.text)].n = n

\* ------------------------------------------ StorageManager: its values
\* ids that the application gives its tasks
AppId(v) == [k |-> "app", v |-> v]
StoreIds == {AppId(1)}
BackendIds == {AppId(1), AppId(2)}

\* a statistic {date, type, data, timestamp}
StatTypes == {"x", "y"}
Stats == [date : {"d"}, type : StatTypes, data : {"u", "v"}]

\* the object stores 'tasks' (keyPath id) and 'statistics' (keyPath date)
NoStores == [tasks |-> {}, statistics |-> {}]

\* the items plannerpro_tasks and plannerpro_statistics
NoKeys == [tasks |-> Null, statistics |-> Null]

NoProbe == [state |-> "idle", request |-> FALSE, timer |-> FALSE]

NoRet == [op |-> "none", outcome |-> "none"]

StoreInit ==
    /\ smPc = "new"
    /\ probe = NoProbe
    /\ isIndexedDBAvailable = FALSE
    /\ db = FALSE
    /\ idb = NoStores
    /\ flat = NoKeys
    /\ smRet = NoRet
    /\ deleted = {}

\* --------------------------------------------- remote tables: values
\* an id of type number (the server sends its ids as strings, SrvId)
NumId(v) == [k |-> "num", v |-> v]

\* a row [id, title]: id is the serial number, title stands for the
\* columns that hold the record's content
Row(v, title) == [id |-> v, title |-> title]

NoExport == [has |-> FALSE, tasks |-> <<>>, seenTasks |-> {}, seenExpenses |-> {}]

NoResult == [has |-> FALSE, list |-> <<>>]

TableInit ==
    /\ table = [tasks |-> <<Row(1, "a")>>, expenses |-> <<Row(1, "a")>>,
                serial |-> [c \in Colls |-> 2]]
    /\ trail = <<>>
    /\ ret = NoResult
    /\ exported = NoExport

\* ------------------------------------------ persisted text: values
\* the keys the read methods parse: plannerpro_tasks, plannerpro_settings
\* (plannerpro_settings_<key> for StorageManager), plannerpro_statistics,
\* plannerpro_expenses
Slots == {"tasks", "settings", "statistics", "expenses"}

\* what a key holds: nothing, the JSON text of a value, or text that
\* JSON.parse rejects
Absent == [kind |-> "absent", value |-> <<>>]
Json(v) == [kind |-> "json", value |-> v]
Malformed == [kind |-> "malformed", value |-> <<>>]

NoRead == [class |-> "none", method |-> "none", threw |-> FALSE, kind |-> "none",
           list |-> <<>>, corrupt |-> FALSE]

AppInit ==
    /\ raw = [s \in Slots |-> Absent]
    /\ rdRet = NoRead

\* ------------------------------------------------- TaskManager: values
\* an empty title; a task without a title has this one after normalizeTask
NoTitle == ""

NoTask == [id |-> NoId, title |-> NoTitle]

NoTmCall == [pc |-> "idle", kind |-> "none", task |-> NoTask]

TmInit ==
    /\ tmTasks = <<>>
    /\ currentEditingTask = NoTask
    /\ tmCall = NoTmCall
    /\ notice = "none"
    /\ tmSerial = 1

\* no call of StorageManager.saveTask has been made
MoreInit ==
    /\ smSaving = {}
    /\ savedIds = {}

\* ------------------------------- NotificationManager: its values
\* reminderTime of this.settings, in minutes
ReminderTime == 15

\* the minutes a 'Snooze 1h' action passes to snoozeTask
SnoozeMinutes == 60

NmIds == StoreIds

\* the fields of a task that checkOverdueTasks, snoozeTask and
\* completeTask read or write
NmTask(id, status, dueDate, notifiedReminder, notifiedOverdue) ==
    [id |-> id, status |-> status, dueDate |-> dueDate,
     notifiedReminder |-> notifiedReminder, notifiedOverdue |-> notifiedOverdue]

NoRun == [pc |-> "idle", tasks |-> <<>>, i |-> 0, now |-> 0]

\* the page has loaded: the store holds tasks that were due at time 0 and
\* not notified, TaskManager.loadTasks() has read them, and no check runs
NmInit ==
    /\ nmStore = {NmTask(id, "pending", 0, FALSE, FALSE) : id \in NmIds}
    /\ tmCopy = [id \in NmIds |-> NmTask(id, "pending", 0, FALSE, FALSE)]
    /\ nmRuns = [k \in 1..MaxRuns |-> NoRun]
    /\ nmNow = ReminderTime
    /\ overdueShown = [id \in NmIds |-> 0]

\* ------------------------------------- automatic backups: values
\* no backup yet, no run; the clock shows a time whose decimal form is as
\* long as that of every time it shows later (13 digits from 2001 to 2286,
\* two digits here)
BkInit ==
    /\ lsBackups = {}
    /\ bkRuns = 0
    /\ bkNow = 10
    /\ bkDropped = 0

\* ------------------------------------------------------------------ Init
Init ==
    /\ StoreInit
    /\ TableInit
    /\ AppInit
    /\ TmInit
    /\ succeeded = {}
    /\ MoreInit
    /\ NmInit
    /\ BkInit
    /\ isOnline \in BOOLEAN
    /\ remoteUp \in BOOLEAN
    /\ pendingOperations = <<>>
    /\ lsPending = Null
    /\ lsRecs = [c \in Colls |-> <<>>]
    /\ remote = [c \in Colls |-> {1}]
    /\ drains = EmptyBag
    /\ initPc = "new"
    /\ call = NoCall
    /\ nextN = 1
    /\ issued = {}
    /\ scen = NoScen

\* ----------------------------------------------------------------- drain
\* a syncPendingOperations loop suspended on the replay of op, with the
\* elements rest of its array still to come; failed is history: the
\* operations whose replay has failed in this pass and has not succeeded since
NewDrain(q) == [op |-> Head(q), rest |-> Tail(q), alias |-> TRUE, failed |-> {}]

\* syncPendingOperations: if (stored) this.pendingOperations = JSON.parse(stored)
SyncLoad(qs) == IF qs.ls.has THEN ReplaceArray(qs, JSONParse(qs.ls.text)) ELSE qs

\* syncPendingOperations up to its first await: load the persisted queue,
\* return when it is empty, else enter the loop and issue the first replay
SyncBegin(qs) ==
    LET qs1 == SyncLoad(qs)
    IN  IF Len(qs1.po) = 0 THEN qs1
        ELSE QS(qs1.po, qs1.ls, BagAdd(qs1.dr, NewDrain(qs1.po)))

\* the state change of one call of syncPendingOperations()
SyncStart ==
    LET qs2 == SyncBegin(CurQS)
    IN  /\ BagCardinality(qs2.dr) <= MaxDrains
        /\ pendingOperations' = qs2.po
        /\ lsPending' = qs2.ls
        /\ drains' = qs2.dr
        /\ issued' = IF BagCardinality(qs2.dr) > BagCardinality(drains)
                     THEN issued \cup {qs2.po[1].n}
                     ELSE issued

\* The for-of loop of syncPendingOperations after the replay of q[i] has
\* been settled: the next element of the (live) array, if any
LoopHasNext(d) == Len(d.rest) > 0

\* syncPendingOperations after its loop:
\* this.pendingOperations = []; localStorage.removeItem(PENDING_OPS)
ClearPending(qs) == QS(<<>>, Null, ReplaceArray(qs, <<>>).dr)

\* The awaited replay of drain d completes with response.ok = ok: the catch
\* of makeApiRequest, then the next iteration or the clearing step
ReplayDone(d, ok) ==
    LET op == d.op
        qs0 == QS(pendingOperations, lsPending, BagRemove(drains, d))
        qs1 == IF ok THEN qs0 ELSE makeApiRequestCatch(qs0, op, isOnline)
        rest1 == IF ~ok /\ d.alias /\ ShouldQueue(isOnline, op.method)
                 THEN Append(d.rest, op) ELSE d.rest
        d1 == [d EXCEPT !.rest = rest1,
                        !.failed = IF ok THEN @ \ {op.n} ELSE @ \cup {op.n}]
    IN  /\ BagIn(d, drains)
        /\ Len(qs1.po) <= MaxQueue
        /\ remote' = IF ok THEN RemoteApply(remote, op) ELSE remote
        /\ IF LoopHasNext(d1)
           THEN /\ pendingOperations' = qs1.po
                /\ lsPending' = qs1.ls
                /\ drains' = BagAdd(qs1.dr, [d1 EXCEPT !.op = Head(d1.rest),
                                                       !.rest = Tail(d1.rest)])
                /\ issued' = issued \cup {Head(d1.rest).n}
           ELSE LET qs2 == ClearPending(qs1)
                IN  /\ pendingOperations' = qs2.po
                    /\ lsPending' = qs2.ls
                    /\ drains' = qs2.dr
                    /\ UNCHANGED issued
        /\ UNCHANGED <<nmVars, bkVars, moreVars, tmVars, appVars, storeVars, tableVars, isOnline, remoteUp, lsRecs, initPc,
                       call, nextN, scen>>

ReplayStep ==
    \E d \in BagToSet(drains) :
        \E ok \in FetchOutcomes(d.op, remote, remoteUp) :
            ReplayDone(d, ok) /\ UNCHANGED histVars

\* ... where the operations the remote has carried out are recorded
ReplayRecordedStep ==
    \E d \in BagToSet(drains) :
        \E ok \in FetchOutcomes(d.op, remote, remoteUp) :
            /\ ReplayDone(d, ok)
            /\ succeeded' = IF ok THEN succeeded \cup {d.op.n} ELSE succeeded

\* ----------------------------------------------------------- environment
\* window 'online' event: isOnline = true; syncPendingOperations()
\* (the event fires on the transition of navigator.onLine, which isOnline copies)
OnlineEvent ==
    /\ ~isOnline
    /\ isOnline' = TRUE
    /\ SyncStart
    /\ UNCHANGED <<histVars, tmVars, appVars, storeVars, tableVars, remoteUp, lsRecs, remote, initPc, call, nextN, scen, moreVars, nmVars, bkVars>>

\* window 'offline' event
OfflineEvent ==
    /\ isOnline
    /\ isOnline' = FALSE
    /\ UNCHANGED <<histVars, tmVars, appVars, storeVars, tableVars, remoteUp, pendingOperations, lsPending, lsRecs, remote,
                   drains, initPc, call, nextN, issued, scen, moreVars, nmVars, bkVars>>

\* saveAll(): await this.syncPendingOperations()
SaveAll ==
    /\ SyncStart
    /\ CurQS # SyncBegin(CurQS)
    /\ UNCHANGED <<histVars, tmVars, appVars, storeVars, tableVars, isOnline, remoteUp, lsRecs, remote, initPc, call, nextN, scen, moreVars, nmVars, bkVars>>

\* the remote API becomes reachable or unreachable
RemoteToggle ==
    /\ remoteUp' = ~remoteUp
    /\ scen' = NoScen
    /\ UNCHANGED <<histVars, tmVars, appVars, storeVars, tableVars, isOnline, pendingOperations, lsPending, lsRecs, remote,
                   drains, initPc, call, nextN, issued, moreVars, nmVars, bkVars>>

\* A process restart followed by new DatabaseStorageManager(): memory is
\* lost, localStorage and the remote store stay
Restart ==
    /\ isOnline' \in BOOLEAN
    /\ pendingOperations' = <<>>
    /\ drains' = EmptyBag
    /\ call' = NoCall
    /\ initPc' = "new"
    /\ scen' = IF scen.phase \in {1, 2} THEN [scen EXCEPT !.phase = 2] ELSE NoScen
    /\ UNCHANGED <<histVars, tmVars, appVars, storeVars, tableVars, remoteUp, lsPending, lsRecs, remote, nextN, issued, moreVars, nmVars, bkVars>>

\* ------------------------------------------------------------------ init
\* init() up to await checkDatabaseConnection()
InitCall ==
    /\ initPc = "new"
    /\ initPc' = "health"
    /\ UNCHANGED <<histVars, tmVars, appVars, storeVars, tableVars, isOnline, remoteUp, pendingOperations, lsPending, lsRecs,
                   remote, drains, call, nextN, issued, scen, moreVars, nmVars, bkVars>>

\* checkDatabaseConnection: response.ok, false on an exception or the timeout
checkDatabaseConnection(up) == up

\* (variant: init drains whatever the health check answered)
InitSyncs_Ungated(isDbAvailable) == TRUE

\* init: if (isDbAvailable) await this.syncPendingOperations()
InitSyncs(isDbAvailable) == isDbAvailable

\* init() from the answer of the health check on; initPc records the answer
HealthDone ==
    /\ initPc = "health"
    /\ LET isDbAvailable == checkDatabaseConnection(remoteUp)
       IN  /\ initPc' = IF isDbAvailable THEN "ok" ELSE "failed"
           /\ IF InitSyncs(isDbAvailable)
              THEN SyncStart
              ELSE UNCHANGED <<pendingOperations, lsPending, drains, issued>>
    /\ UNCHANGED <<histVars, tmVars, appVars, storeVars, tableVars, isOnline, remoteUp, lsRecs, remote, call, nextN, scen, moreVars, nmVars, bkVars>>

\* ---------------------------------------------------------------- facade
Saves == {"saveTask", "saveExpense"}
Deletes == {"deleteTask", "deleteExpense"}
Reads == {"getAllTasks"}
Kinds == Saves \cup Deletes \cup Reads

CollOf(kind) == IF kind \in {"saveExpense", "deleteExpense"} THEN "expenses" ELSE "tasks"

\* The request a facade method hands to makeApiRequest.  saveTask and
\* saveExpense: method = id ? 'PUT' : 'POST'; a getter passes no options.
Request(kind, rec, n) ==
    Operation(n,
              IF kind \in Saves THEN (IF rec.id # NoId THEN "PUT" ELSE "POST")
              ELSE IF kind \in Deletes THEN "DELETE"
              ELSE "undefined",
              CollOf(kind), rec.id)

\* The else branch (this.isOnline false) of saveExpense and deleteExpense
\* calls addPendingOperation; that of saveTask and deleteTask does not.
QueuesOffline(kind) == kind \in {"saveExpense", "deleteExpense"}

\* Whether the method touches its localStorage list on this path: saveTask,
\* deleteTask and saveExpense in the else branch and in the catch block,
\* deleteExpense always ("Always remove from localStorage")
TouchesLocal(kind, path) ==
    IF kind = "deleteExpense" THEN TRUE
    ELSE IF kind \in Reads THEN FALSE
    ELSE path # "ok"

LocalAfter(kind, path, rec, list, t) ==
    IF ~TouchesLocal(kind, path) THEN list
    ELSE IF kind \in Saves THEN PutLocal(list, rec, t)
    ELSE DeleteLocal(list, rec.id)

\* the queue after the method: the catch of makeApiRequest on the failed
\* path, addPendingOperation in the else branch of the expense methods
QueueAfter(kind, path, op, qs, online) ==
    IF path = "failed" THEN makeApiRequestCatch(qs, op, online)
    ELSE IF path = "offline" /\ QueuesOffline(kind) THEN addPendingOperation(qs, op)
    ELSE qs

\* history of the scenario saveTask(T); restart; getAllTasks() with the
\* remote unreachable: phase 1 after the save, 2 after the restart, 3 after
\* the read, found: the list returned by the read contains T
ScenAfter(kind, path, rec, t, sc, up, ls) ==
    IF kind = "saveTask"
    THEN (IF up THEN NoScen
          ELSE [phase |-> 1, id |-> PutLocalResult(rec, t).id,
                title |-> rec.title, found |-> FALSE])
    ELSE IF kind = "deleteTask" THEN NoScen
    ELSE IF kind = "getAllTasks" /\ sc.phase \in {2, 3} /\ path # "ok"
         THEN [sc EXCEPT !.phase = 3,
                         !.found = HasRecord(getTasksFromLocalStorage(ls),
                                             [id |-> sc.id, title |-> sc.title])]
    ELSE sc

\* A facade method from its last suspension point to its return; path is
\* "offline" (else branch), "ok" (the request succeeded) or "failed" (catch);
\* t is the reading of Date.now()
Complete(kind, rec, path, t, maxOps) ==
    LET op == Request(kind, rec, nextN)
        c == CollOf(kind)
        qs1 == QueueAfter(kind, path, op, CurQS, isOnline)
        enq == qs1 # CurQS
        list2 == LocalAfter(kind, path, rec, lsRecs[c], t)
    IN  /\ enq => (nextN <= maxOps /\ Len(qs1.po) <= MaxQueue)
        /\ Len(list2) <= MaxRecs
        /\ pendingOperations' = qs1.po
        /\ lsPending' = qs1.ls
        /\ drains' = qs1.dr
        /\ nextN' = IF enq THEN nextN + 1 ELSE nextN
        /\ lsRecs' = [lsRecs EXCEPT ![c] = list2]
        /\ remote' = IF path = "ok" THEN RemoteApply(remote, op) ELSE remote
        /\ scen' = ScenAfter(kind, path, rec, t, scen, remoteUp, lsRecs)
        /\ UNCHANGED <<histVars, tmVars, appVars, storeVars, tableVars, isOnline, remoteUp, initPc, issued, moreVars, nmVars, bkVars>>

\* the arguments the application passes
Args(kind) ==
    IF kind \in Saves THEN [id : CallerIds, title : TitlesOf(kind)]
    ELSE IF kind \in Deletes
         THEN [id : {SrvId(1)} \cup {lsRecs[CollOf(kind)][i].id : i \in 1..Len(lsRecs[CollOf(kind)])},
               title : {"a"}]
    ELSE {[id |-> NoId, title |-> "a"]}

\* a facade method called with this.isOnline true: up to await makeApiRequest
FacadeCall(kind, rec) ==
    /\ isOnline
    /\ call.kind = "none"
    /\ call' = [kind |-> kind, op |-> Request(kind, rec, 0), rec |-> rec]
    /\ UNCHANGED <<histVars, tmVars, appVars, storeVars, tableVars, isOnline, remoteUp, pendingOperations, lsPending, lsRecs,
                   remote, drains, initPc, nextN, issued, scen, moreVars, nmVars, bkVars>>

\* the awaited makeApiRequest of the facade method returns or throws
FacadeDone(ok, t, maxOps) ==
    /\ call.kind # "none"
    /\ Complete(call.kind, call.rec, IF ok THEN "ok" ELSE "failed", t, maxOps)
    /\ call' = NoCall

\* a facade method called with this.isOnline false: it runs to its end
FacadeOffline(kind, rec, t, maxOps) ==
    /\ ~isOnline
    /\ Complete(kind, rec, "offline", t, maxOps)
    /\ UNCHANGED call

\* the facade methods the specifications of the queue call: deleteExpense
\* reaches the queue on every path that does not succeed
QueueKinds == {"deleteExpense"}

\* the facade methods SpecFacade calls
TaskKinds == {"saveTask", "deleteTask", "getAllTasks"}

FacadeCallStep(K) == \E kind \in K : \E rec \in Args(kind) : FacadeCall(kind, rec)

FacadeDoneStep(maxOps) ==
    \E ok \in FetchOutcomes(call.op, remote, remoteUp) :
        \E t \in Clock : FacadeDone(ok, t, maxOps)

FacadeOfflineStep(K, maxOps) ==
    \E kind \in K : \E rec \in Args(kind) :
        \E t \in Clock : FacadeOffline(kind, rec, t, maxOps)

\* The queue, its drains and their triggers
Next ==
    \/ OnlineEvent
    \/ OfflineEvent
    \/ SaveAll
    \/ RemoteToggle
    \/ InitCall
    \/ HealthDone
    \/ ReplayStep
    \/ FacadeCallStep(QueueKinds)
    \/ FacadeDoneStep(MaxOps)
    \/ FacadeOfflineStep(QueueKinds, MaxOps)
    \/ Restart

Spec == Init /\ [][Next]_vars

\* ... where the health check is answered or aborted by its timer
\* (AbortSignal.timeout(5000)); the fetch of makeApiRequest has no timer, so
\* nothing makes the answers to facade calls and replays arrive
SpecTimeout == Spec /\ WF_vars(HealthDone)

\* The same machine with the history of the successful replays
NextOnce ==
    \/ OnlineEvent
    \/ OfflineEvent
    \/ SaveAll
    \/ RemoteToggle
    \/ InitCall
    \/ HealthDone
    \/ ReplayRecordedStep
    \/ FacadeCallStep(QueueKinds)
    \/ FacadeDoneStep(MaxOps)
    \/ FacadeOfflineStep(QueueKinds, MaxOps)
    \/ Restart

SpecOnce == Init /\ [][NextOnce]_vars

\* The same machine with room for three enqueued operations
NextOrder ==
    \/ OnlineEvent
    \/ OfflineEvent
    \/ SaveAll
    \/ RemoteToggle
    \/ InitCall
    \/ HealthDone
    \/ ReplayStep
    \/ FacadeCallStep(QueueKinds)
    \/ FacadeDoneStep(MaxOrderOps)
    \/ FacadeOfflineStep(QueueKinds, MaxOrderOps)
    \/ Restart

SpecOrder == Init /\ [][NextOrder]_vars

\* The task methods of the facade over the local store, the queue and the
\* remote store, in a process whose queue is not drained
NextFacade ==
    \/ OfflineEvent
    \/ RemoteToggle
    \/ FacadeCallStep(TaskKinds)
    \/ FacadeDoneStep(MaxFacadeOps)
    \/ FacadeOfflineStep(TaskKinds, MaxFacadeOps)
    \/ Restart

SpecFacade == Init /\ [][NextFacade]_vars

\* ======================================================== StorageManager
\* resolve(v) of the promise of checkIndexedDBSupport: the first call settles it
Resolve(p, v) == IF p.state = "pending" THEN [p EXCEPT !.state = v] ELSE p

\* (variant: the probe sets no timer)
TimerArmed_Never == FALSE

\* checkIndexedDBSupport: setTimeout(() => resolve(false), 1000)
TimerArmed == TRUE

\* init() up to await this.checkIndexedDBSupport(): without window.indexedDB
\* the probe resolves to false at once, else the test request and the
\* timer are outstanding
SmInitCall ==
    /\ smPc = "new"
    /\ smPc' = "probing"
    /\ \E present \in BOOLEAN :
          probe' = IF present
                   THEN [state |-> "pending", request |-> TRUE, timer |-> TimerArmed]
                   ELSE [state |-> "false", request |-> FALSE, timer |-> FALSE]
    /\ UNCHANGED <<isIndexedDBAvailable, db, idb, flat, smRet, deleted, dbVars, tableVars, appVars, tmVars, histVars, moreVars, nmVars, bkVars>>

\* testRequest.onsuccess
ProbeSuccess ==
    /\ probe.request
    /\ probe' = [Resolve(probe, "true") EXCEPT !.request = FALSE]
    /\ UNCHANGED <<smPc, isIndexedDBAvailable, db, idb, flat, smRet, deleted, dbVars, tableVars, appVars, tmVars, histVars, moreVars, nmVars, bkVars>>

\* testRequest.onerror
ProbeError ==
    /\ probe.request
    /\ probe' = [Resolve(probe, "false") EXCEPT !.request = FALSE]
    /\ UNCHANGED <<smPc, isIndexedDBAvailable, db, idb, flat, smRet, deleted, dbVars, tableVars, appVars, tmVars, histVars, moreVars, nmVars, bkVars>>

\* testRequest.onupgradeneeded (onsuccess or onerror follows)
ProbeUpgrade ==
    /\ probe.request
    /\ probe.state = "pending"
    /\ probe' = Resolve(probe, "true")
    /\ UNCHANGED <<smPc, isIndexedDBAvailable, db, idb, flat, smRet, deleted, dbVars, tableVars, appVars, tmVars, histVars, moreVars, nmVars, bkVars>>

\* the timer of the probe fires
ProbeTimeout ==
    /\ probe.timer
    /\ probe' = [Resolve(probe, "false") EXCEPT !.timer = FALSE]
    /\ UNCHANGED <<smPc, isIndexedDBAvailable, db, idb, flat, smRet, deleted, dbVars, tableVars, appVars, tmVars, histVars, moreVars, nmVars, bkVars>>

\* init() after the probe has resolved: this.isIndexedDBAvailable = <result>;
\* if it is true, await this.initIndexedDB(); else setupAutoBackup() and done
ProbeResolved ==
    /\ smPc = "probing"
    /\ probe.state \in {"true", "false"}
    /\ isIndexedDBAvailable' = (probe.state = "true")
    /\ smPc' = IF probe.state = "true" THEN "opening" ELSE "ready"
    /\ UNCHANGED <<probe, db, idb, flat, smRet, deleted, dbVars, tableVars, appVars, tmVars, histVars, moreVars, nmVars, bkVars>>

\* initIndexedDB, request.onsuccess: this.db = event.target.result; init
\* goes on to migrateFromLocalStorage()
OpenSuccess ==
    /\ smPc = "opening"
    /\ db' = TRUE
    /\ smPc' = "migrating"
    /\ UNCHANGED <<probe, isIndexedDBAvailable, idb, flat, smRet, deleted, dbVars, tableVars, appVars, tmVars, histVars, moreVars, nmVars, bkVars>>

\* initIndexedDB, request.onerror: reject; the catch of init rethrows
OpenError ==
    /\ smPc = "opening"
    /\ smPc' = "rejected"
    /\ UNCHANGED <<probe, isIndexedDBAvailable, db, idb, flat, smRet, deleted, dbVars, tableVars, appVars, tmVars, histVars, moreVars, nmVars, bkVars>>

\* the methods choose the indexed backend
UsesIndexed == isIndexedDBAvailable /\ db

\* store.put(task) of an object store with keyPath id
IdbPut(store, task) == {r \in store : r.id # task.id} \cup {task}

\* store.delete(id)
IdbDelete(store, id) == {r \in store : r.id # id}

\* item ? JSON.parse(item) : []
FlatRead(item) == IF item.has THEN item.text ELSE <<>>

\* saveTask on the flat backend: replace at findIndex(t => t.id === task.id) or push
FlatPut(list, task) ==
    LET existingIndex == FindIndex(list, task.id)
    IN  IF existingIndex > 0 THEN [list EXCEPT ![existingIndex] = task]
        ELSE Append(list, task)

RECURSIVE PutAll(_, _)
\* for (const task of parsedData) await this.saveTask(task)
PutAll(store, list) ==
    IF list = <<>> THEN store ELSE PutAll(IdbPut(store, Head(list)), Tail(list))

\* migrateFromLocalStorage: the tasks of plannerpro_tasks are saved one by
\* one; a failing put ends the migration in its catch.  (An item under
\* plannerpro_statistics would go to the 'settings' store, which this
\* model does not hold; no action of the specification that has Migrate
\* writes that item.)  init then calls setupAutoBackup() and returns.
Migrate ==
    /\ smPc = "migrating"
    /\ smPc' = "ready"
    /\ \E ok \in BOOLEAN :
          idb' = IF ok /\ flat.tasks.has
                 THEN [idb EXCEPT !.tasks = PutAll(@, flat.tasks.text)]
                 ELSE idb
    /\ UNCHANGED <<probe, isIndexedDBAvailable, db, flat, smRet, deleted, dbVars, tableVars, appVars, tmVars, histVars, moreVars, nmVars, bkVars>>

\* a method is called once init has settled
Settled == smPc \in {"ready", "rejected"}

Outcome(ok) == IF ok THEN "resolved" ELSE "rejected"

\* saveTask(task); ok: the request or localStorage.setItem succeeds
SmSaveTask(task, ok) ==
    /\ Settled
    /\ IF UsesIndexed
       THEN /\ idb' = IF ok THEN [idb EXCEPT !.tasks = IdbPut(@, task)] ELSE idb
            /\ deleted' = IF ok THEN deleted \ {task.id} ELSE deleted
            /\ UNCHANGED flat
       ELSE /\ flat' = IF ok
                       THEN [flat EXCEPT !.tasks = Item(FlatPut(FlatRead(@), task))]
                       ELSE flat
            /\ deleted' = IF ok THEN deleted \ {task.id} ELSE deleted
            /\ UNCHANGED idb
    /\ smRet' = [op |-> "saveTask", outcome |-> Outcome(ok)]
    /\ UNCHANGED <<smPc, probe, isIndexedDBAvailable, db, dbVars, tableVars, appVars, tmVars, histVars, moreVars, nmVars, bkVars>>

\* deleteTask(id)
SmDeleteTask(id, ok) ==
    /\ Settled
    /\ IF UsesIndexed
       THEN /\ idb' = IF ok THEN [idb EXCEPT !.tasks = IdbDelete(@, id)] ELSE idb
            /\ deleted' = IF ok THEN deleted \cup {id} ELSE deleted
            /\ UNCHANGED flat
       ELSE /\ flat' = IF ok
                       THEN [flat EXCEPT !.tasks = Item(Filter(FlatRead(@), id))]
                       ELSE flat
            /\ UNCHANGED <<idb, deleted>>
    /\ smRet' = [op |-> "deleteTask", outcome |-> Outcome(ok)]
    /\ UNCHANGED <<smPc, probe, isIndexedDBAvailable, db, dbVars, tableVars, appVars, tmVars, histVars, moreVars, nmVars, bkVars>>

StoreReads == {"getAllTasks", "getTask", "getTasksByDateRange"}

\* How a retrieval settles when its backend read succeeds (ok) or fails.
\* On the indexed backend getAllTasks and getTask return the promise of
\* the request, whose reject(request.error) no catch of the method sees;
\* getTasksByDateRange awaits getAllTasks inside its try.  On the flat
\* backend the read throws inside the try of the method.
ReadOutcome(kind, indexed, ok) ==
    IF ok \/ ~indexed \/ kind = "getTasksByDateRange" THEN "resolved" ELSE "rejected"

SmRead(kind, ok) ==
    /\ Settled
    /\ smRet' = [op |-> kind, outcome |-> ReadOutcome(kind, UsesIndexed, ok)]
    /\ UNCHANGED <<smPc, probe, isIndexedDBAvailable, db, idb, flat, deleted, dbVars, tableVars, appVars, tmVars, histVars, moreVars, nmVars, bkVars>>

\* the page is loaded again and new StorageManager() is constructed: both
\* backends keep their data
SmRestart ==
    /\ smPc # "new"
    /\ smPc' = "new"
    /\ probe' = NoProbe
    /\ isIndexedDBAvailable' = FALSE
    /\ db' = FALSE
    /\ smRet' = NoRet
    /\ UNCHANGED <<idb, flat, deleted, dbVars, tableVars, appVars, tmVars, histVars, moreVars, nmVars, bkVars>>

SmSaveTaskStep == \E id \in StoreIds, title \in Titles, ok \in BOOLEAN :
                      SmSaveTask([id |-> id, title |-> title], ok)

SmDeleteTaskStep == \E id \in StoreIds, ok \in BOOLEAN : SmDeleteTask(id, ok)

SmReadStep == \E kind \in StoreReads, ok \in BOOLEAN : SmRead(kind, ok)

InitStore == Init /\ isOnline /\ remoteUp

\* StorageManager over its two backends, through page loads
NextStore ==
    \/ SmInitCall
    \/ ProbeSuccess
    \/ ProbeError
    \/ ProbeUpgrade
    \/ ProbeTimeout
    \/ ProbeResolved
    \/ OpenSuccess
    \/ OpenError
    \/ Migrate
    \/ SmSaveTaskStep
    \/ SmDeleteTaskStep
    \/ SmReadStep
    \/ SmRestart

SpecStore == InitStore /\ [][NextStore]_vars

\* ... where a timer that is set fires and the continuation of an await runs
SpecStoreLive ==
    SpecStore /\ WF_vars(ProbeTimeout) /\ WF_vars(ProbeResolved)

\* ------------------------------------------------- the two backends
\* saveStatistic on the indexed backend: store.put(stat), keyPath date
IdbPutStat(store, stat) == {s \in store : s.date # stat.date} \cup {stat}

\* saveStatistic on the flat backend: replace at
\* findIndex(s => s.date === date && s.type === type) or push
FlatPutStat(list, stat) ==
    LET hits == {i \in 1..Len(list) :
                    list[i].date = stat.date /\ list[i].type = stat.type}
    IN  IF hits # {}
        THEN [list EXCEPT ![CHOOSE i \in hits : \A j \in hits : i <= j] = stat]
        ELSE Append(list, stat)

Range(s) == {s[i] : i \in 1..Len(s)}

\* what getAllTasks and getStatistics return on each backend, as sets
IdbGetAllTasks(stores) == stores.tasks
FlatGetAllTasks(keys) == Range(FlatRead(keys.tasks))
IdbGetStatistics(stores) == stores.statistics
FlatGetStatistics(keys) == Range(FlatRead(keys.statistics))

\* Two StorageManagers receive the same calls: one has selected the indexed
\* backend and keeps its records in idb, the other has selected the flat
\* backend and keeps them in flat.
BkSaveTask(task) ==
    /\ idb' = [idb EXCEPT !.tasks = IdbPut(@, task)]
    /\ flat' = [flat EXCEPT !.tasks = Item(FlatPut(FlatRead(@), task))]
    /\ UNCHANGED <<smPc, probe, isIndexedDBAvailable, db, smRet, deleted, dbVars, tableVars, appVars, tmVars, histVars, moreVars, nmVars, bkVars>>

BkDeleteTask(id) ==
    /\ idb' = [idb EXCEPT !.tasks = IdbDelete(@, id)]
    /\ flat' = [flat EXCEPT !.tasks = Item(Filter(FlatRead(@), id))]
    /\ UNCHANGED <<smPc, probe, isIndexedDBAvailable, db, smRet, deleted, dbVars, tableVars, appVars, tmVars, histVars, moreVars, nmVars, bkVars>>

BkSaveStatistic(stat) ==
    /\ idb' = [idb EXCEPT !.statistics = IdbPutStat(@, stat)]
    /\ flat' = [flat EXCEPT !.statistics = Item(FlatPutStat(FlatRead(@), stat))]
    /\ UNCHANGED <<smPc, probe, isIndexedDBAvailable, db, smRet, deleted, dbVars, tableVars, appVars, tmVars, histVars, moreVars, nmVars, bkVars>>

BkSaveTaskStep == \E id \in BackendIds, title \in Titles :
                      BkSaveTask([id |-> id, title |-> title])

BkDeleteTaskStep == \E id \in BackendIds : BkDeleteTask(id)

BkSaveStatisticStep == \E stat \in Stats : BkSaveStatistic(stat)

NextBackends ==
    \/ BkSaveTaskStep
    \/ BkDeleteTaskStep
    \/ BkSaveStatisticStep

SpecBackends == InitStore /\ [][NextBackends]_vars

\* ============================== the facade against the remote tables
\* The specifications of this section keep the rows of the remote store,
\* with their contents, in table (they leave remote, the ids alone, as it
\* is).  A facade method is one action here: the call, the answer of the
\* remote API and the rest of the method.

\* parseInt(id) is NaN for an id that does not begin with digits
IsNaN(id) == id.k \notin {"srv", "num"}

HasRow(rows, id) == ~IsNaN(id) /\ \E i \in 1..Len(rows) : rows[i].id = id.v

RowOf(rows, id) == rows[CHOOSE i \in 1..Len(rows) : rows[i].id = id.v]

\* convertTaskFromDb / convertExpenseFromDb: id: dbTask.id.toString()
convertTaskFromDb(row) == [id |-> SrvId(row.id), title |-> row.title]

Reverse(s) == [i \in 1..Len(s) |-> s[Len(s) + 1 - i]]

\* db.update(...).set(...).where(id = v)
UpdateRow(rows, v, title) ==
    [i \in 1..Len(rows) |-> IF rows[i].id = v THEN Row(v, title) ELSE rows[i]]

\* db.insert(...).values(...).returning() with a serial id
InsertRow(tb, c, title) ==
    [tb EXCEPT ![c] = Append(@, Row(tb.serial[c], title)),
               !.serial[c] = @ + 1]

\* An answer of the server: ok is response.ok, tb the tables afterwards,
\* list the records of the body
Answer(ok, tb, list) == [ok |-> ok, tb |-> tb, list |-> list]

\* POST, PUT /api/tasks -> DatabaseStorage.saveTask: only an id of type
\* number updates a row, and convertTaskFromDb(undefined) throws when that
\* row does not exist; every other task is inserted
ServerSaveTask(tb, task) ==
    IF task.id.k = "num"
    THEN IF HasRow(tb.tasks, task.id)
         THEN Answer(TRUE, [tb EXCEPT !.tasks = UpdateRow(@, task.id.v, task.title)],
                     <<convertTaskFromDb(Row(task.id.v, task.title))>>)
         ELSE Answer(FALSE, tb, <<>>)
    ELSE Answer(TRUE, InsertRow(tb, "tasks", task.title),
                <<convertTaskFromDb(Row(tb.serial["tasks"], task.title))>>)

\* PUT /api/expenses/:id, POST /api/expenses -> DatabaseStorage.saveExpense
ServerSaveExpense(tb, expense) ==
    IF expense.id # NoId
    THEN IF HasRow(tb.expenses, expense.id)
         THEN Answer(TRUE, [tb EXCEPT !.expenses = UpdateRow(@, expense.id.v, expense.title)],
                     <<convertTaskFromDb(Row(expense.id.v, expense.title))>>)
         ELSE Answer(FALSE, tb, <<>>)
    ELSE Answer(TRUE, InsertRow(tb, "expenses", expense.title),
                <<convertTaskFromDb(Row(tb.serial["expenses"], expense.title))>>)

\* GET /api/tasks/:id -> DatabaseStorage.getTask: 404 without a row
ServerGetTask(tb, id) ==
    IF HasRow(tb.tasks, id)
    THEN Answer(TRUE, tb, <<convertTaskFromDb(RowOf(tb.tasks, id))>>)
    ELSE Answer(FALSE, tb, <<>>)

\* GET /api/tasks -> DatabaseStorage.getAllTasks, newest first
ServerGetAllTasks(tb) ==
    Answer(TRUE, tb, Reverse([i \in 1..Len(tb.tasks) |-> convertTaskFromDb(tb.tasks[i])]))

\* DELETE /api/tasks/:id -> DatabaseStorage.deleteTask; the query with NaN
\* either fails or matches no row
ServerDeleteTask(tb, id) ==
    IF IsNaN(id) THEN {Answer(TRUE, tb, <<>>), Answer(FALSE, tb, <<>>)}
    ELSE {Answer(TRUE, [tb EXCEPT !.tasks = SelectSeq(@, LAMBDA r : r.id # id.v)], <<>>)}

\* GET /api/export -> DatabaseStorage.exportData: tasks, settings and
\* statistics (the last two are not modelled), no expenses
ServerExportData(tb) == ServerGetAllTasks(tb)

\* DatabaseStorage.clearAll
ServerClearAll(tb) == [tb EXCEPT !.tasks = <<>>, !.expenses = <<>>]

RECURSIVE InsertAll(_, _)
\* for (const task of data.tasks) await this.saveTask({...task, id: undefined})
InsertAll(tb, list) ==
    IF list = <<>> THEN tb
    ELSE InsertAll(InsertRow(tb, "tasks", Head(list).title), Tail(list))

\* POST /api/import -> DatabaseStorage.importData: clearAll, then the tasks
\* and the settings of the data
ServerImportData(tb, data) == Answer(TRUE, InsertAll(ServerClearAll(tb), data), <<>>)

\* tasks.find(task => task.id === id)
Find(list, id) ==
    LET index == FindIndex(list, id)
    IN  IF index > 0 THEN <<list[index]>> ELSE <<>>

\* exportDataFromLocalStorage: tasks, settings, statistics
exportDataFromLocalStorage(ls) == ls["tasks"]

\* importDataToLocalStorage: the tasks of the data replace plannerpro_tasks
importDataToLocalStorage(ls, data) == [ls EXCEPT !["tasks"] = data]

\* clearLocalStorageData: every key of localStorageKeys is removed
clearLocalStorageData(ls) == [c \in Colls |-> <<>>]

\* history: one call of the facade; on: isOnline and the remote reachable,
\* rid: the id of the record the call returned
Entry(kind, rec, rid) ==
    [kind |-> kind, id |-> rec.id, title |-> rec.title,
     on |-> isOnline /\ remoteUp, rid |-> rid]

\* The path a facade method takes: the else branch, the awaited request
\* answered with response.ok, or the catch block
Path(ok) == IF ~isOnline THEN "offline" ELSE IF remoteUp /\ ok THEN "ok" ELSE "failed"

\* the queue after the method: makeApiRequest's catch on the failed path,
\* addPendingOperation in the else branch of the methods that have one
RmQueueAfter(kind, path, op) ==
    IF path = "failed" THEN makeApiRequestCatch(CurQS, op, isOnline)
    ELSE IF path = "offline" /\ QueuesOffline(kind) THEN addPendingOperation(CurQS, op)
    ELSE CurQS

\* a facade method called with rec: ans is what the server answers if the
\* request reaches it, local the local lists on the paths that go to
\* localStorage, out the value returned there, and keepsKey says that
\* plannerpro_pending_ops survives the method
RmCall(kind, method, rec, ans, local, out, keepsKey, maxCalls) ==
    LET path == Path(ans.ok)
        op == Operation(nextN, method, CollOf(kind), rec.id)
        qs1 == RmQueueAfter(kind, path, op)
        result == IF path = "ok" THEN ans.list ELSE out
    IN  /\ Len(trail) < maxCalls
        /\ Len(qs1.po) <= MaxQueue
        /\ \A c \in Colls : Len(local[c]) <= MaxRecs
        /\ ans.tb.serial["tasks"] <= MaxSerial + 1
        /\ ans.tb.serial["expenses"] <= MaxSerial + 1
        /\ pendingOperations' = qs1.po
        /\ lsPending' = IF keepsKey THEN qs1.ls ELSE Null
        /\ drains' = qs1.dr
        /\ nextN' = IF qs1 # CurQS THEN nextN + 1 ELSE nextN
        /\ table' = IF path = "ok" THEN ans.tb ELSE table
        /\ lsRecs' = IF path = "ok" /\ kind # "clearAll" THEN lsRecs ELSE local
        /\ ret' = [has |-> TRUE, list |-> result]
        /\ trail' = Append(trail, Entry(kind, rec,
                                IF Len(result) = 1 THEN result[1].id ELSE rec.id))
        /\ UNCHANGED <<histVars, appVars, storeVars, isOnline, remoteUp, remote, initPc, call, issued, scen, moreVars, nmVars, bkVars>>

NoArg == [id |-> NoId, title |-> "a"]

\* saveTask(task)
RmSaveTask(task, t, maxCalls) ==
    /\ RmCall("saveTask", IF task.id # NoId THEN "PUT" ELSE "POST", task,
              ServerSaveTask(table, task),
              [lsRecs EXCEPT !["tasks"] = PutLocal(@, task, t)],
              <<PutLocalResult(task, t)>>, TRUE, maxCalls)
    /\ UNCHANGED exported

\* getTask(id)
RmGetTask(id, maxCalls) ==
    /\ RmCall("getTask", "undefined", [id |-> id, title |-> "a"],
              ServerGetTask(table, id), lsRecs,
              Find(getTasksFromLocalStorage(lsRecs), id), TRUE, maxCalls)
    /\ UNCHANGED <<exported, tmVars, histVars, moreVars, nmVars, bkVars>>

\* getAllTasks()
RmGetAllTasks(maxCalls) ==
    /\ RmCall("getAllTasks", "undefined", NoArg,
              ServerGetAllTasks(table), lsRecs,
              getTasksFromLocalStorage(lsRecs), TRUE, maxCalls)
    /\ UNCHANGED <<exported, tmVars, histVars, moreVars, nmVars, bkVars>>

\* deleteTask(id)
RmDeleteTask(id, maxCalls) ==
    /\ \E ans \in ServerDeleteTask(table, id) :
          RmCall("deleteTask", "DELETE", [id |-> id, title |-> "a"], ans,
                 [lsRecs EXCEPT !["tasks"] = DeleteLocal(@, id)], <<>>, TRUE, maxCalls)
    /\ UNCHANGED <<exported, tmVars, histVars, moreVars, nmVars, bkVars>>

\* saveExpense(expense)
RmSaveExpense(expense, t, maxCalls) ==
    /\ RmCall("saveExpense", IF expense.id # NoId THEN "PUT" ELSE "POST", expense,
              ServerSaveExpense(table, expense),
              [lsRecs EXCEPT !["expenses"] = PutLocal(@, expense, t)],
              <<PutLocalResult(expense, t)>>, TRUE, maxCalls)
    /\ UNCHANGED exported

Titles_(list) == {list[i].title : i \in 1..Len(list)}

\* what the getters of a collection read from in this connectivity state
Visible(c) == IF isOnline /\ remoteUp THEN Titles_(table[c]) ELSE Titles_(lsRecs[c])

\* exportData(); seenTasks and seenExpenses are history: the records the
\* getters showed when the export was made
RmExportData(maxCalls) ==
    /\ RmCall("exportData", "undefined", NoArg,
              ServerExportData(table), lsRecs,
              exportDataFromLocalStorage(lsRecs), TRUE, maxCalls)
    /\ exported' = [has |-> TRUE, tasks |-> ret'.list,
                    seenTasks |-> Visible("tasks"),
                    seenExpenses |-> Visible("expenses")]
    /\ UNCHANGED <<tmVars, histVars, moreVars, nmVars, bkVars>>

\* clearAll(): the request when online, then clearLocalStorageData() on
\* every path
RmClearAll(maxCalls) ==
    /\ RmCall("clearAll", "POST", NoArg,
              Answer(TRUE, ServerClearAll(table), <<>>),
              clearLocalStorageData(lsRecs), <<>>, FALSE, maxCalls)
    /\ UNCHANGED <<exported, tmVars, histVars, moreVars, nmVars, bkVars>>

\* importData(data) with the data of the last export
RmImportData(maxCalls) ==
    /\ exported.has
    /\ RmCall("importData", "POST", NoArg,
              ServerImportData(table, exported.tasks),
              importDataToLocalStorage(lsRecs, exported.tasks), <<>>, TRUE, maxCalls)
    /\ UNCHANGED <<exported, tmVars, histVars, moreVars, nmVars, bkVars>>

\* the ids the caller has seen
KnownIds == {SrvId(1)} \cup {trail[i].rid : i \in 1..Len(trail)}
                       \cup {lsRecs["tasks"][i].id : i \in 1..Len(lsRecs["tasks"])}

RmSaveTaskStep(Ids, Ts, maxCalls) ==
    \E id \in Ids, title \in Ts, t \in Clock :
        RmSaveTask([id |-> id, title |-> title], t, maxCalls) /\ UNCHANGED <<tmVars, histVars, moreVars, nmVars, bkVars>>

RmGetTaskStep(maxCalls) == \E id \in KnownIds \ {NoId} : RmGetTask(id, maxCalls)

RmDeleteTaskStep(maxCalls) == \E id \in KnownIds \ {NoId} : RmDeleteTask(id, maxCalls)

RmSaveExpenseStep(maxCalls) ==
    \E t \in Clock : RmSaveExpense(NoArg, t, maxCalls) /\ UNCHANGED <<tmVars, histVars, moreVars, nmVars, bkVars>>

\* saveTask and getTask
NextRoundTrip ==
    \/ OfflineEvent
    \/ RemoteToggle
    \/ RmSaveTaskStep({NoId, SrvId(1), NumId(1), NumId(2)}, Titles, MaxCalls)
    \/ RmGetTaskStep(MaxCalls)

SpecRoundTrip == Init /\ [][NextRoundTrip]_vars

\* saveTask, deleteTask and getAllTasks
NextDelete ==
    \/ OfflineEvent
    \/ RemoteToggle
    \/ RmSaveTaskStep({NoId, SrvId(1)}, {"a"}, MaxDeleteCalls)
    \/ RmDeleteTaskStep(MaxDeleteCalls)
    \/ RmGetAllTasks(MaxDeleteCalls)

SpecDelete == Init /\ [][NextDelete]_vars

\* export, clear and import of tasks and expenses
NextTransfer ==
    \/ OfflineEvent
    \/ RemoteToggle
    \/ RmSaveTaskStep({NoId}, {"a"}, MaxCalls)
    \/ RmSaveExpenseStep(MaxCalls)
    \/ RmExportData(MaxCalls)
    \/ RmClearAll(MaxCalls)
    \/ RmImportData(MaxCalls)

SpecTransfer == Init /\ [][NextTransfer]_vars

\* =============================== malformed text in the local collections
\* a stored task or expense, and the settings object with one key
Rec == [id |-> 1, category |-> "c"]
Setting == [key |-> "theme", value |-> "dark"]

\* What an expression yields: a value (kind says which: a list or object, a
\* single record, undefined, null, the default value, the body of a remote
\* answer) or an exception
Ret(kind, list) == [threw |-> FALSE, kind |-> kind, list |-> list]
Thrown == [threw |-> TRUE, kind |-> "error", list |-> <<>>]

\* (variant: the catch block lets the exception through)
TryCatch_Rethrow(r, handler) == r

\* try { r } catch (error) { handler }
TryCatch(r, handler) == IF r.threw THEN handler ELSE r

\* stored ? JSON.parse(stored) : <whenAbsent>
ParseItem(item, whenAbsent) ==
    IF item.kind = "absent" THEN whenAbsent
    ELSE IF item.kind = "malformed" THEN Thrown
    ELSE Ret("list", item.value)

\* the rest of an expression that uses the value of r
Then(r, F(_)) == IF r.threw THEN r ELSE F(r.list)

\* list.find(x => x.id === id)
FindRec(list) ==
    IF \E i \in 1..Len(list) : list[i].id = Rec.id
    THEN Ret("one", <<list[CHOOSE i \in 1..Len(list) : list[i].id = Rec.id]>>)
    ELSE Ret("undefined", <<>>)

\* list.filter(x => x.category === category), and the filters by date
FilterRecs(list) == Ret("list", SelectSeq(list, LAMBDA x : x.category = Rec.category))

\* settings[key] !== undefined ? settings[key] : defaultValue
Lookup(settings) ==
    IF \E i \in 1..Len(settings) : settings[i].key = Setting.key
    THEN Ret("one", settings) ELSE Ret("default", <<>>)

\* DatabaseStorageManager: getTasksFromLocalStorage, getStatisticsFromLocalStorage,
\* getExpensesFromLocalStorage, getSettingsFromLocalStorage
getListFromLocalStorage(item) ==
    TryCatch(ParseItem(item, Ret("list", <<>>)), Ret("list", <<>>))

getSettingsFromLocalStorage(item) == getListFromLocalStorage(item)

getSettingFromLocalStorage(item) == Then(getSettingsFromLocalStorage(item), Lookup)

\* exportDataFromLocalStorage reads tasks, settings and statistics;
\* getStorageInfo reads tasks.length
ExportLocal(rw) ==
    Then(getListFromLocalStorage(rw["tasks"]),
         LAMBDA tasks : Then(getSettingsFromLocalStorage(rw["settings"]),
         LAMBDA settings : Then(getListFromLocalStorage(rw["statistics"]),
         LAMBDA statistics : Ret("list", tasks))))

\* the read methods of DatabaseStorageManager, and the key each one reads
DbReads == [getAllTasks |-> "tasks", getTask |-> "tasks",
            getTasksByDateRange |-> "tasks", getTasksByCategory |-> "tasks",
            getSetting |-> "settings", getStatistics |-> "statistics",
            getAllExpenses |-> "expenses", getExpense |-> "expenses",
            getExpensesByDateRange |-> "expenses", getExpensesByCategory |-> "expenses",
            exportData |-> "tasks", getStorageInfo |-> "tasks"]

\* what the method computes from localStorage, in its else branch and in
\* its catch block
DbLocal(method, rw) ==
    LET list == getListFromLocalStorage(rw[DbReads[method]])
    IN  IF method \in {"getAllTasks", "getStatistics", "getAllExpenses", "getStorageInfo"}
        THEN list
        ELSE IF method \in {"getTask", "getExpense"} THEN Then(list, FindRec)
        ELSE IF method = "getSetting" THEN getSettingFromLocalStorage(rw["settings"])
        ELSE IF method = "exportData" THEN ExportLocal(rw)
        ELSE Then(list, FilterRecs)

\* try { if (this.isOnline) <the awaited request> else <local> } catch { <local> }
DbRead(method, rw, online, ok) ==
    TryCatch(IF online THEN (IF ok THEN Ret("remote", <<>>) ELSE Thrown)
             ELSE DbLocal(method, rw),
             DbLocal(method, rw))

\* StorageManager on the flat backend: getAllTasks and getStatistics
RawGetList(item) ==
    TryCatch(ParseItem(item, Ret("list", <<>>)), Ret("list", <<>>))

\* getSetting(key): the item plannerpro_settings_<key> holds the value
RawGetSetting(item) ==
    TryCatch(ParseItem(item, Ret("default", <<>>)), Ret("default", <<>>))

\* exportData: getAllTasks, getStatistics, getSetting; its catch rethrows
RawExportData(rw) ==
    TryCatch(Then(RawGetList(rw["tasks"]),
                  LAMBDA tasks : Then(RawGetList(rw["statistics"]),
                  LAMBDA statistics : Then(RawGetSetting(rw["settings"]),
                  LAMBDA setting : Ret("list", tasks)))),
             Thrown)

\* the read methods of StorageManager, and the key each one reads
SmReads == [getAllTasks |-> "tasks", getTask |-> "tasks",
            getTasksByDateRange |-> "tasks", getTasksByCategory |-> "tasks",
            getSetting |-> "settings", getStatistics |-> "statistics",
            exportData |-> "tasks"]

SmFlatRead(method, rw) ==
    LET list == RawGetList(rw[SmReads[method]])
    IN  IF method \in {"getAllTasks", "getStatistics"} THEN list
        ELSE IF method = "getTask" THEN TryCatch(Then(list, FindRec), Ret("null", <<>>))
        ELSE IF method = "getSetting" THEN RawGetSetting(rw["settings"])
        ELSE IF method = "exportData" THEN RawExportData(rw)
        ELSE TryCatch(Then(list, FilterRecs), Ret("list", <<>>))

\* history of a read: how it settled, and whether the key it reads held
\* malformed text and the method went to localStorage
ReadEntry(class, method, r, slot) ==
    [class |-> class, method |-> method, threw |-> r.threw, kind |-> r.kind,
     list |-> r.list, corrupt |-> raw[slot].kind = "malformed" /\ r.kind # "remote"]

DbReadCall(method, ok) ==
    /\ rdRet' = ReadEntry("DatabaseStorageManager", method,
                          DbRead(method, raw, isOnline, remoteUp /\ ok), DbReads[method])
    /\ UNCHANGED <<raw, dbVars, storeVars, tableVars, tmVars, histVars, moreVars, nmVars, bkVars>>

SmFlatReadCall(method) ==
    /\ ~UsesIndexed
    /\ rdRet' = ReadEntry("StorageManager", method, SmFlatRead(method, raw), SmReads[method])
    /\ UNCHANGED <<raw, dbVars, storeVars, tableVars, tmVars, histVars, moreVars, nmVars, bkVars>>

\* a save on the local path: the list the reader returns, with the record
\* replaced or pushed, is written back (settings[key] = value for a setting)
LocalPutCall(slot) ==
    LET list == getListFromLocalStorage(raw[slot]).list
        x == IF slot = "settings" THEN Setting ELSE Rec
    IN  /\ raw' = [raw EXCEPT ![slot] = Json(IF list = <<>> THEN <<x>> ELSE list)]
        /\ UNCHANGED <<rdRet, dbVars, storeVars, tableVars, tmVars, histVars, moreVars, nmVars, bkVars>>

\* a delete on the local path
LocalDeleteCall(slot) ==
    LET list == getListFromLocalStorage(raw[slot]).list
    IN  /\ slot # "settings"
        /\ raw' = [raw EXCEPT ![slot] = Json(SelectSeq(list, LAMBDA x : x.id # Rec.id))]
        /\ UNCHANGED <<rdRet, dbVars, storeVars, tableVars, tmVars, histVars, moreVars, nmVars, bkVars>>

\* environment: the text under a key is damaged (a write cut short, another
\* script, the user)
CorruptSlot(slot) ==
    /\ raw[slot].kind # "malformed"
    /\ raw' = [raw EXCEPT ![slot] = Malformed]
    /\ UNCHANGED <<rdRet, dbVars, storeVars, tableVars, tmVars, histVars, moreVars, nmVars, bkVars>>

DbReadStep == \E method \in DOMAIN DbReads, ok \in BOOLEAN : DbReadCall(method, ok)

SmFlatReadStep == \E method \in DOMAIN SmReads : SmFlatReadCall(method)

LocalPutStep == \E slot \in Slots : LocalPutCall(slot)

LocalDeleteStep == \E slot \in Slots : LocalDeleteCall(slot)

CorruptStep == \E slot \in Slots : CorruptSlot(slot)

NextCorrupt ==
    \/ OfflineEvent
    \/ RemoteToggle
    \/ DbReadStep
    \/ SmFlatReadStep
    \/ LocalPutStep
    \/ LocalDeleteStep
    \/ CorruptStep

SpecCorrupt == Init /\ [][NextCorrupt]_vars

\* =========================================================== TaskManager
\* validateTaskForm: a title is required (the limits on the lengths are not
\* modelled)
validateTaskForm(formData) == formData.title # NoTitle

\* generateTaskId: 'task_' + Date.now() + '_' + <random>
generateTaskId(n) == AppId(n)

\* normalizeTask: id: task.id || this.generateTaskId(), title: task.title || ''
normalizeTask(task, n) ==
    [id |-> IF task.id # NoId THEN task.id ELSE generateTaskId(n), title |-> task.title]

\* getTaskById
getTaskById(list, id) ==
    IF FindIndex(list, id) > 0 THEN list[FindIndex(list, id)] ELSE NoTask

\* openTaskModal(taskId): this.currentEditingTask = null, then the task with
\* that id if there is one
openTaskModal(taskId) ==
    /\ currentEditingTask' = IF taskId # NoId THEN getTaskById(tmTasks, taskId) ELSE NoTask
    /\ UNCHANGED <<tmTasks, tmCall, notice, tmSerial, dbVars, storeVars, tableVars, appVars, histVars, moreVars, nmVars, bkVars>>

\* closeTaskModal
closeTaskModal ==
    /\ currentEditingTask' = NoTask
    /\ UNCHANGED <<tmTasks, tmCall, notice, tmSerial, dbVars, storeVars, tableVars, appVars, histVars, moreVars, nmVars, bkVars>>

\* saveTask() up to await this.storage.saveTask(task): a form that does not
\* validate ends the method after a notification
TmSaveTaskCall(title) ==
    LET formData == [title |-> title]
        editing == currentEditingTask # NoTask
        task == IF editing THEN [currentEditingTask EXCEPT !.title = title]
                ELSE [id |-> generateTaskId(tmSerial), title |-> title]
    IN  /\ tmCall.pc = "idle"
        /\ IF ~validateTaskForm(formData)
           THEN /\ notice' = "Validation Error"
                /\ UNCHANGED <<tmCall, tmSerial>>
           ELSE /\ editing \/ tmSerial <= MaxTmIds
                /\ tmCall' = [pc |-> "awaiting", kind |-> "saveTask", task |-> task]
                /\ tmSerial' = IF editing THEN tmSerial ELSE tmSerial + 1
                /\ UNCHANGED notice
        /\ UNCHANGED <<tmTasks, currentEditingTask, dbVars, storeVars, tableVars, appVars, histVars, moreVars, nmVars, bkVars>>

\* saveTask() after the await: this.currentEditingTask is read again
TmSaveTaskDone ==
    /\ tmCall.kind = "saveTask"
    /\ tmCall.pc \in {"resolved", "rejected"}
    /\ IF tmCall.pc = "resolved"
       THEN /\ tmTasks' =
                 IF currentEditingTask # NoTask
                 THEN LET index == FindIndex(tmTasks, tmCall.task.id)
                      IN  IF index > 0 THEN [tmTasks EXCEPT ![index] = tmCall.task]
                          ELSE tmTasks
                 ELSE Append(tmTasks, tmCall.task)
            /\ currentEditingTask' = NoTask
            /\ notice' = "Task Saved"
       ELSE /\ notice' = "Save Failed"
            /\ UNCHANGED <<tmTasks, currentEditingTask>>
    /\ tmCall' = NoTmCall
    /\ UNCHANGED <<tmSerial, dbVars, storeVars, tableVars, appVars, histVars, moreVars, nmVars, bkVars>>

\* importTasks(data) with one task in data.tasks, up to
\* await this.storage.saveTask(normalizedTask)
TmImportTasksCall(task) ==
    /\ tmCall.pc = "idle"
    /\ task.id # NoId \/ tmSerial <= MaxTmIds
    /\ tmCall' = [pc |-> "awaiting", kind |-> "importTasks",
                  task |-> normalizeTask(task, tmSerial)]
    /\ tmSerial' = IF task.id # NoId THEN tmSerial ELSE tmSerial + 1
    /\ UNCHANGED <<tmTasks, currentEditingTask, notice, dbVars, storeVars, tableVars, appVars, histVars, moreVars, nmVars, bkVars>>

\* this.storage is the facade: saveTask(task) runs to its end
TmFacadeSaveTask ==
    /\ tmCall.pc = "awaiting"
    /\ \E t \in Clock : RmSaveTask(tmCall.task, t, MaxCalls)
    /\ tmCall' = [tmCall EXCEPT !.pc = "resolved"]
    /\ UNCHANGED <<tmTasks, currentEditingTask, notice, tmSerial, histVars, moreVars, nmVars, bkVars>>

\* the tasks of a list as TaskManager holds them
Normalized(list) == [i \in 1..Len(list) |-> [id |-> list[i].id, title |-> list[i].title]]

\* importTasks after its loop: await this.loadTasks(), which reads
\* this.storage.getAllTasks()
TmFacadeImportDone ==
    /\ tmCall.kind = "importTasks"
    /\ tmCall.pc = "resolved"
    /\ RmCall("getAllTasks", "undefined", NoArg, ServerGetAllTasks(table), lsRecs,
              getTasksFromLocalStorage(lsRecs), TRUE, MaxCalls + 1)
    /\ tmTasks' = Normalized(ret'.list)
    /\ tmCall' = NoTmCall
    /\ UNCHANGED <<exported, currentEditingTask, notice, tmSerial, histVars, moreVars, nmVars, bkVars>>

\* the titles a form or an imported file may carry
FormTitles == {NoTitle, "a"}

TmSaveTaskStep == \E title \in FormTitles : TmSaveTaskCall(title)

TmImportTasksStep == \E title \in FormTitles : TmImportTasksCall([id |-> NoId, title |-> title])

\* TaskManager over the facade, and the facade called directly
NextValidate ==
    \/ OfflineEvent
    \/ RemoteToggle
    \/ TmSaveTaskStep
    \/ TmImportTasksStep
    \/ TmFacadeSaveTask
    \/ TmSaveTaskDone
    \/ TmFacadeImportDone
    \/ RmSaveTaskStep({NoId}, FormTitles, MaxCalls)

SpecValidate == Init /\ [][NextValidate]_vars

\* the modal is opened for a task of the list or for a new one
OpenTaskModalStep ==
    \E taskId \in {NoId} \cup {tmTasks[i].id : i \in 1..Len(tmTasks)} : openTaskModal(taskId)

\* TaskManager.saveTask and the modal, over the facade
NextModal ==
    \/ OfflineEvent
    \/ RemoteToggle
    \/ OpenTaskModalStep
    \/ closeTaskModal
    \/ TmSaveTaskStep
    \/ TmFacadeSaveTask
    \/ TmSaveTaskDone

SpecModal == Init /\ [][NextModal]_vars

\* ================== StorageManager.saveTask on the flat backend, by steps
\* saveTask(task) up to its await: getAllTasks() has no await on the flat
\* backend, so it reads plannerpro_tasks while it is being called, and
\* saveTask then suspends with the list it got
FlatSaveCall(task) ==
    /\ ~UsesIndexed
    /\ \A c \in smSaving : c.task.id # task.id
    /\ smSaving' = smSaving \cup {[task |-> task, tasks |-> FlatRead(flat.tasks)]}
    /\ UNCHANGED <<savedIds, flat, smPc, probe, isIndexedDBAvailable, db, idb, smRet, deleted,
                   dbVars, tableVars, appVars, tmVars, histVars, nmVars, bkVars>>

\* the list the resumed call works on
FlatSaveList(c) == c.tasks

\* saveTask after the await: replace or push in that list, setItem, return
FlatSaveDone(c) ==
    /\ c \in smSaving
    /\ flat' = [flat EXCEPT !.tasks = Item(FlatPut(FlatSaveList(c), c.task))]
    /\ smSaving' = smSaving \ {c}
    /\ savedIds' = savedIds \cup {c.task.id}
    /\ UNCHANGED <<smPc, probe, isIndexedDBAvailable, db, idb, smRet, deleted,
                   dbVars, tableVars, appVars, tmVars, histVars, nmVars, bkVars>>

FlatSaveCallStep == \E id \in BackendIds, title \in Titles :
                        FlatSaveCall([id |-> id, title |-> title])

FlatSaveDoneStep == \E c \in smSaving : FlatSaveDone(c)

NextFlatSave ==
    \/ FlatSaveCallStep
    \/ FlatSaveDoneStep

SpecFlatSave == InitStore /\ [][NextFlatSave]_vars

\* ============ NotificationManager.checkOverdueTasks beside TaskManager
\* Both components get the StorageManager of the application, here on its
\* indexed backend: a request is carried out at some moment between its
\* call and the continuation of the caller.

RECURSIVE InKeyOrder(_)
\* store.getAll(): the records in the order of their keys
InKeyOrder(store) ==
    IF store = {} THEN <<>>
    ELSE LET r == CHOOSE r \in store : \A q \in store : r.id.v <= q.id.v
         IN  <<r>> \o InKeyOrder(store \ {r})

\* the branch of the loop body that task takes at time now
Fires(task, now) ==
    IF task.status = "completed" THEN "none"
    ELSE IF task.dueDate < now /\ ~task.notifiedOverdue THEN "overdue"
    ELSE IF /\ task.dueDate > now
            /\ task.dueDate - now <= ReminderTime
            /\ ~task.notifiedReminder THEN "soon"
    ELSE "none"

RECURSIVE Scan(_, _, _)
\* the first index from i on whose task takes a branch, 0 when the loop ends
Scan(tasks, i, now) ==
    IF i > Len(tasks) THEN 0
    ELSE IF Fires(tasks[i], now) # "none" THEN i
    ELSE Scan(tasks, i + 1, now)

\* the loop of run k from index i on: it ends, or it shows the notification
\* of the next task that takes a branch, marks that task as notified and
\* suspends at await this.storage.saveTask(task)
Proceed(k, tasks, i, now) ==
    LET j == Scan(tasks, i, now)
    IN  IF j = 0
        THEN /\ nmRuns' = [nmRuns EXCEPT ![k] = NoRun]
             /\ UNCHANGED overdueShown
        ELSE LET task == tasks[j]
                 overdue == Fires(task, now) = "overdue"
                 marked == IF overdue THEN [task EXCEPT !.notifiedOverdue = TRUE]
                           ELSE [task EXCEPT !.notifiedReminder = TRUE]
             IN  /\ overdue => overdueShown[task.id] < MaxShown
                 /\ overdueShown' = IF overdue
                                    THEN [overdueShown EXCEPT ![task.id] = @ + 1]
                                    ELSE overdueShown
                 /\ nmRuns' = [nmRuns EXCEPT ![k] =
                                  [pc |-> "saving", tasks |-> [tasks EXCEPT ![j] = marked],
                                   i |-> j, now |-> now]]

\* checkOverdueTasks() is called by the timer, by the first check of
\* startTaskChecking or by visibilitychange, up to await getAllTasks()
CheckCall(k) ==
    /\ nmRuns[k].pc = "idle"
    /\ nmRuns' = [nmRuns EXCEPT ![k] = [NoRun EXCEPT !.pc = "reading"]]
    /\ UNCHANGED <<nmStore, tmCopy, nmNow, overdueShown,
                   dbVars, storeVars, tableVars, appVars, tmVars, histVars, moreVars, bkVars>>

\* the getAll request of run k is carried out
CheckRead(k) ==
    /\ nmRuns[k].pc = "reading"
    /\ nmRuns' = [nmRuns EXCEPT ![k] = [@ EXCEPT !.pc = "read",
                                                 !.tasks = InKeyOrder(nmStore)]]
    /\ UNCHANGED <<nmStore, tmCopy, nmNow, overdueShown,
                   dbVars, storeVars, tableVars, appVars, tmVars, histVars, moreVars, bkVars>>

\* run k continues with the tasks it was given: now = new Date(), the loop
CheckResume(k) ==
    /\ nmRuns[k].pc = "read"
    /\ Proceed(k, nmRuns[k].tasks, 1, nmNow)
    /\ UNCHANGED <<nmStore, tmCopy, nmNow,
                   dbVars, storeVars, tableVars, appVars, tmVars, histVars, moreVars, bkVars>>

\* the saveTask awaited by run k settles: resolved, the task is put and the
\* loop goes on; rejected, the catch of checkOverdueTasks ends the run
CheckSaved(k, ok) ==
    LET run == nmRuns[k]
    IN  /\ run.pc = "saving"
        /\ IF ok
           THEN /\ nmStore' = IdbPut(nmStore, run.tasks[run.i])
                /\ Proceed(k, run.tasks, run.i + 1, run.now)
           ELSE /\ nmRuns' = [nmRuns EXCEPT ![k] = NoRun]
                /\ UNCHANGED <<nmStore, overdueShown>>
        /\ UNCHANGED <<tmCopy, nmNow,
                       dbVars, storeVars, tableVars, appVars, tmVars, histVars, moreVars, bkVars>>

\* snoozeTask(taskId, minutes): the task read from the store gets a new due
\* time, both flags are reset and it is saved
NmSnoozeTask(taskId, minutes) ==
    /\ \E task \in nmStore :
          /\ task.id = taskId
          /\ nmStore' = IdbPut(nmStore, [task EXCEPT !.dueDate = nmNow + minutes,
                                                     !.notifiedReminder = FALSE,
                                                     !.notifiedOverdue = FALSE])
    /\ overdueShown' = [overdueShown EXCEPT ![taskId] = 0]
    /\ UNCHANGED <<nmRuns, tmCopy, nmNow,
                   dbVars, storeVars, tableVars, appVars, tmVars, histVars, moreVars, bkVars>>

\* TaskManager.completeTask(taskId): the status of the task of this.tasks is
\* toggled and that object is saved
TmCompleteTask(taskId) ==
    LET task == tmCopy[taskId]
        wasCompleted == task.status = "completed"
        toggled == [task EXCEPT !.status = IF wasCompleted THEN "pending" ELSE "completed"]
    IN  /\ tmCopy' = [tmCopy EXCEPT ![taskId] = toggled]
        /\ nmStore' = IdbPut(nmStore, toggled)
        /\ UNCHANGED <<nmRuns, nmNow, overdueShown,
                       dbVars, storeVars, tableVars, appVars, tmVars, histVars, moreVars, bkVars>>

\* a reminder period passes
NmTick ==
    /\ nmNow < MaxTicks * ReminderTime
    /\ nmNow' = nmNow + ReminderTime
    /\ UNCHANGED <<nmStore, nmRuns, tmCopy, overdueShown,
                   dbVars, storeVars, tableVars, appVars, tmVars, histVars, moreVars, bkVars>>

CheckCallStep == \E k \in 1..MaxRuns : CheckCall(k)

CheckReadStep == \E k \in 1..MaxRuns : CheckRead(k)

CheckResumeStep == \E k \in 1..MaxRuns : CheckResume(k)

CheckSavedStep == \E k \in 1..MaxRuns, ok \in BOOLEAN : CheckSaved(k, ok)

NmSnoozeTaskStep == \E id \in NmIds : NmSnoozeTask(id, SnoozeMinutes)

TmCompleteTaskStep == \E id \in NmIds : TmCompleteTask(id)

NextOverdue ==
    \/ CheckCallStep
    \/ CheckReadStep
    \/ CheckResumeStep
    \/ CheckSavedStep
    \/ NmSnoozeTaskStep
    \/ TmCompleteTaskStep
    \/ NmTick

SpecOverdue == InitStore /\ [][NextOverdue]_vars

\* ===================================== StorageManager.createAutoBackup
\* A backup is the key plannerpro_last_backup_<Date.now()>; lsBackups holds
\* the times of the keys present.  No other key of the application starts
\* with plannerpro_last_backup.

RECURSIVE Decimal(_)
\* `${n}`: the decimal digits of n
Decimal(n) == IF n < 10 THEN <<n>> ELSE Decimal(n \div 10) \o <<n % 10>>

RECURSIVE LexLess(_, _)
\* the order of Array.prototype.sort() without a comparator, on strings of
\* digits: by code units from the left, a proper prefix first
LexLess(a, b) ==
    IF a = <<>> THEN b # <<>>
    ELSE IF b = <<>> THEN FALSE
    ELSE IF Head(a) # Head(b) THEN Head(a) < Head(b)
    ELSE LexLess(Tail(a), Tail(b))

RECURSIVE SortKeys(_)
\* Object.keys(localStorage).filter(startsWith(LAST_BACKUP)).sort(): the
\* keys share their prefix, so they are ordered by their decimal suffix
SortKeys(times) ==
    IF times = {} THEN <<>>
    ELSE LET first == CHOOSE t \in times :
                          \A u \in times \ {t} : LexLess(Decimal(t), Decimal(u))
         IN  <<first>> \o SortKeys(times \ {first})

\* the keys removed by a loop that stops one key earlier
RemovedKeys_Fewer(existingBackups) ==
    IF Len(existingBackups) >= 5
    THEN {existingBackups[i + 1] : i \in 0..(Len(existingBackups) - 6)}
    ELSE {}

\* if (existingBackups.length >= 5)
\*     for (i = 0; i < existingBackups.length - 4; i++) removeItem(existingBackups[i])
RemovedKeys(existingBackups) ==
    IF Len(existingBackups) >= 5
    THEN {existingBackups[i + 1] : i \in 0..(Len(existingBackups) - 5)}
    ELSE {}

Max(S) == CHOOSE m \in S : \A x \in S : x <= m

\* the timer of setupAutoBackup fires: createAutoBackup() up to
\* await this.exportData()
BkCall ==
    /\ bkRuns < MaxBkRuns
    /\ bkRuns' = bkRuns + 1
    /\ UNCHANGED <<lsBackups, bkNow, bkDropped,
                   dbVars, storeVars, tableVars, appVars, tmVars, histVars, moreVars, nmVars>>

\* createAutoBackup() after the await; exported: exportData() resolved,
\* else the catch ends the run; stored: setItem succeeded, else (quota) the
\* catch is entered after the removals
BkDone(wasExported, stored) ==
    /\ bkRuns > 0
    /\ bkRuns' = bkRuns - 1
    /\ IF wasExported
       THEN LET removed == RemovedKeys(SortKeys(lsBackups))
                kept == lsBackups \ removed
            IN  /\ lsBackups' = IF stored THEN kept \cup {bkNow} ELSE kept
                /\ bkDropped' = IF removed = {} THEN bkDropped
                                ELSE Max(removed \cup {bkDropped})
       ELSE UNCHANGED <<lsBackups, bkDropped>>
    /\ UNCHANGED <<bkNow,
                   dbVars, storeVars, tableVars, appVars, tmVars, histVars, moreVars, nmVars>>

\* StorageManager.clearAll() removes every key of localStorage that
\* starts with one of the storage keys, the backups among them
BkClearAll ==
    /\ lsBackups # {}
    /\ lsBackups' = {}
    /\ bkDropped' = 0
    /\ UNCHANGED <<bkRuns, bkNow,
                   dbVars, storeVars, tableVars, appVars, tmVars, histVars, moreVars, nmVars>>

\* time passes
BkTick(step) ==
    /\ bkNow + step <= MaxBkNow
    /\ bkNow' = bkNow + step
    /\ UNCHANGED <<lsBackups, bkRuns, bkDropped,
                   dbVars, storeVars, tableVars, appVars, tmVars, histVars, moreVars, nmVars>>

BkDoneStep == \E wasExported, stored \in BOOLEAN : BkDone(wasExported, stored)

BkTickStep == \E step \in {1, 3} : BkTick(step)

NextBackup ==
    \/ BkCall
    \/ BkDoneStep
    \/ BkClearAll
    \/ BkTickStep

SpecBackup == InitStore /\ [][NextBackup]_vars

\* ================================================================ claims
Mutating == {"POST", "PUT", "DELETE"}

\* C1: the pending-operation queue, in memory and as persisted, holds only
\* mutating operations; no request of a facade getter is ever enqueued
C1_OnlyMutatingQueued ==
    /\ \A i \in 1..Len(pendingOperations) : pendingOperations[i].method \in Mutating
    /\ \A i \in 1..Len(lsPending.text) : lsPending.text[i].method \in Mutating

\* C2: operations are first issued to the remote in the order of their
\* enqueue: a replay call for an operation not issued before is never made
\* after one for an operation enqueued later
C2_ReplayInEnqueueOrder ==
    [][\A n \in issued' \ issued : \A m \in issued : m < n]_vars

\* the operations of drain d still failing once its awaited replay has
\* answered ok
FailedAfter(d, ok) == IF ok THEN d.failed \ {d.op.n} ELSE d.failed \cup {d.op.n}

\* the step is the completion of the replay awaited by d, and the loop of d
\* goes on / ends with it
PassGoesOn(d, ok) ==
    ReplayDone(d, ok) /\ BagCardinality(drains') = BagCardinality(drains)

PassEnds(d, ok) ==
    ReplayDone(d, ok) /\ BagCardinality(drains') < BagCardinality(drains)

\* C3: while an operation of a drain pass is still failing, the pass issues
\* no other operation of the queue
C3_HaltOnFailure ==
    [][\A d \in BagToSet(drains) : \A ok \in BOOLEAN :
          (PassGoesOn(d, ok) /\ FailedAfter(d, ok) # {})
              => \E e \in BagToSet(drains') :
                    e.failed = FailedAfter(d, ok) /\ e.op.n \in e.failed]_vars

\* C4: when a drain pass finishes, every operation whose replay failed is
\* still queued, in memory and persisted, and the operations removed had
\* been replayed without failing
C4_FailedKept ==
    [][\A d \in BagToSet(drains) : \A ok \in BOOLEAN :
          PassEnds(d, ok)
              => LET kept == Ns(pendingOperations') \cap Ns(lsPending'.text)
                     before == Ns(pendingOperations) \cup Ns(lsPending.text)
                 IN  /\ FailedAfter(d, ok) \subseteq kept
                     /\ (before \ kept) \subseteq (issued \ FailedAfter(d, ok))]_vars

\* C5: at most one drain is in progress at any time
C5_OneDrain == BagCardinality(drains) <= 1

\* C6: as long as no replay has been issued, every operation enqueued so
\* far is in the persisted queue, in the order of the enqueues, whatever
\* restarts have happened
C6_EnqueuedSurviveRestart ==
    issued = {} =>
        /\ Len(lsPending.text) = nextN - 1
        /\ \A i \in 1..Len(lsPending.text) : lsPending.text[i].n = i

\* the record is in the list (save) or gone from it (delete)
AppliedLocally(kind, rec, list) ==
    IF kind \in Saves THEN HasRecord(list, rec) ELSE ~HasId(list, rec.id)

\* C7: a mutating facade call made offline, or whose remote call fails, is
\* applied to the local store and appended to the pending-operation queue
C7_OfflineAppliedAndQueued ==
    [][/\ \A kind \in Saves \cup Deletes : \A rec \in Args(kind) : \A t \in Clock :
             FacadeOffline(kind, rec, t, MaxFacadeOps)
                 => /\ AppliedLocally(kind, rec, lsRecs'[CollOf(kind)])
                    /\ IsQueued(QS(pendingOperations', lsPending', drains'), nextN)
       /\ \A t \in Clock :
             (call.kind \in Saves \cup Deletes /\ FacadeDone(FALSE, t, MaxFacadeOps))
                 => /\ AppliedLocally(call.kind, call.rec, lsRecs'[CollOf(call.kind)])
                    /\ IsQueued(QS(pendingOperations', lsPending', drains'), nextN)]_vars

\* a replay call is issued in the step
ReplayIssued ==
    \/ BagCardinality(drains') > BagCardinality(drains)
    \/ \E d \in BagToSet(drains) : \E ok \in BOOLEAN : PassGoesOn(d, ok)

\* C8 (as claimed): once the health check of init has failed, no replay
\* call is issued
C8_NoReplayAfterFailedHealth ==
    [][initPc' = "failed" => ~ReplayIssued]_vars

\* C8 (amended): the init whose health check fails starts no drain and
\* leaves the queue as it is
C8_FailedInitStartsNoDrain ==
    [][(initPc = "health" /\ initPc' = "failed")
          => /\ drains' = drains
             /\ issued' = issued
             /\ pendingOperations' = pendingOperations
             /\ lsPending' = lsPending]_vars

\* the health check has failed with operations in the persisted queue, and
\* no drain runs
C8_Witness ==
    /\ initPc = "failed"
    /\ lsPending.has /\ Len(lsPending.text) > 0
    /\ drains = EmptyBag

\* C9: with the remote unreachable, getAllTasks() after saveTask(T) and a
\* restart returns a list that contains T
C9_OfflineDurability == scen.phase = 3 => scen.found

\* the read after the save and the restart, with isOnline true
C9_Witness == scen.phase = 3 /\ scen.found /\ isOnline

\* C10: on every path a save leaves the record in the local store and a
\* delete leaves none with that id there; a delete that reached the remote
\* leaves none in the remote store either
C10_AlwaysLocal ==
    [][/\ \A kind \in Saves \cup Deletes : \A rec \in Args(kind) : \A t \in Clock :
             FacadeOffline(kind, rec, t, MaxFacadeOps)
                 => AppliedLocally(kind, rec, lsRecs'[CollOf(kind)])
       /\ \A ok \in BOOLEAN : \A t \in Clock :
             (call.kind \in Saves \cup Deletes /\ FacadeDone(ok, t, MaxFacadeOps))
                 => /\ AppliedLocally(call.kind, call.rec, lsRecs'[CollOf(call.kind)])
                    /\ (ok /\ call.kind \in Deletes /\ call.rec.id.k = "srv")
                          => call.rec.id.v \notin remote'[CollOf(call.kind)]]_vars

\* C14: no retrieval method of StorageManager ever rejects; a failing read of
\* the chosen backend gives the empty or default result.
C14_ReadsNeverReject ==
    smRet.op \in StoreReads => smRet.outcome = "resolved"

\* C15: storage initialization completes instead of rejecting, whatever
\* fails at startup.
C15_InitCompletes == smPc # "rejected"

\* C16: migration is one-time: a task deleted from the indexed backend is not
\* brought back by a later init from the copy left in the flat backend.
C16_MigrationOnce ==
    \A id \in deleted : \A r \in idb.tasks : r.id # id

C18_BackendsAgree ==
    /\ IdbGetAllTasks(idb) = FlatGetAllTasks(flat)
    /\ IdbGetStatistics(idb) = FlatGetStatistics(flat)

\* C13: no collection of the local store holds two records with the same
\* id, also after two puts without an id at the same clock reading.
C13_UniqueIds ==
    \A c \in Colls : \A i, j \in 1..Len(lsRecs[c]) :
        i # j => lsRecs[c][i].id # lsRecs[c][j].id

\* the last k calls of the facade were of these kinds, oldest first
LastKinds(kinds) ==
    /\ Len(trail) >= Len(kinds)
    /\ \A i \in 1..Len(kinds) : trail[Len(trail) - Len(kinds) + i].kind = kinds[i]

\* the call made k calls before the last one
Back(k) == trail[Len(trail) - k]

\* C11: after deleteTask(id) has been called twice in a row, getAllTasks()
\* returns no record with that id, in every connectivity state.
C11_DeleteTwice ==
    (LastKinds(<<"deleteTask", "deleteTask", "getAllTasks">>) /\ Back(1).id = Back(2).id)
        => ~HasId(ret.list, Back(1).id)

\* C12: while online, saveTask(T) followed by getTask(T.id) (the id the save
\* returned when T had none) returns a record with the content of T.
C12_RoundTrip ==
    (/\ LastKinds(<<"saveTask", "getTask">>)
     /\ Back(1).on /\ Back(0).on
     /\ Back(0).id = (IF Back(1).id # NoId THEN Back(1).id ELSE Back(1).rid))
        => (Len(ret.list) = 1 /\ ret.list[1].title = Back(1).title)

\* C17: export, then clearAll, then import of the exported data, in one
\* connectivity state, leaves the getters with the tasks and the expenses
\* they showed at the export.
C17_ExportImport ==
    (/\ LastKinds(<<"exportData", "clearAll", "importData">>)
     /\ \A k \in 0..2 : Back(k).on = (isOnline /\ remoteUp))
        => (/\ Visible("tasks") = exported.seenTasks
            /\ Visible("expenses") = exported.seenExpenses)

\* C19: no remote call stays pending for ever: a facade call suspended on
\* makeApiRequest completes and a suspended drain ends, also when the remote
\* never answers.
C19_NoCallPendingForever ==
    /\ (call.kind # "none") ~> (call.kind = "none")
    /\ (drains # EmptyBag) ~> (drains = EmptyBag)


\* C21: a read method over a collection whose persisted text is malformed
\* raises no exception and returns the empty collection, or the default or
\* absent value; no read method of either class throws.
C21_CorruptReadsEmpty ==
    /\ ~rdRet.threw
    /\ rdRet.corrupt
          => /\ rdRet.list = <<>>
             /\ rdRet.kind \in {"list", "default", "undefined"}

\* a read of a setting over malformed text has returned the default value
C21_Witness ==
    /\ rdRet.corrupt /\ rdRet.method = "getSetting" /\ rdRet.kind = "default"
    /\ raw["settings"] = Malformed

\* C22: a task with an empty title reaches neither store: no record of the
\* local task list and no row of the remote tasks table has an empty title,
\* whatever TaskManager.saveTask, TaskManager.importTasks and the saveTask
\* of the facade have been called with.
C22_NoEmptyTitleStored ==
    /\ \A i \in 1..Len(lsRecs["tasks"]) : lsRecs["tasks"][i].title # NoTitle
    /\ \A i \in 1..Len(table.tasks) : table.tasks[i].title # NoTitle

\* C23: every drain terminates: a pass replays each operation of its array
\* once, so it never issues again an operation whose replay has already
\* failed in this pass, and the number of its replay calls is bounded by the
\* length of the queue.
C23_DrainTerminates ==
    \A d \in BagToSet(drains) : d.op.n \notin d.failed

\* the operation whose replay a pass issues next when the replay awaited
\* by d has answered ok
NextOp(d, ok) ==
    Head(IF ~ok /\ d.alias /\ ShouldQueue(isOnline, d.op.method)
         THEN Append(d.rest, d.op) ELSE d.rest)

\* the operations a replay call is issued for in the step
IssuedNow ==
    IF BagCardinality(drains') > BagCardinality(drains)
    THEN {pendingOperations'[1].n}
    ELSE {NextOp(x[1], x[2]).n :
             x \in {y \in BagToSet(drains) \X BOOLEAN : PassGoesOn(y[1], y[2])}}

\* C24: an operation that the remote has carried out is not replayed again:
\* no replay call is issued for an operation after a replay of it has
\* succeeded, whatever drains, restarts and overlapping triggers happen.
C24_ReplayedOnce ==
    [][\A n \in IssuedNow : n \notin succeeded']_vars

\* C25: when clearAll() of the facade has completed, the pending-operation
\* queue is empty in memory and absent from localStorage, so that nothing
\* enqueued before it can be replayed or persisted again.
C25_ClearAllEmptiesQueue ==
    LastKinds(<<"clearAll">>) => (pendingOperations = <<>> /\ ~lsPending.has)

\* C26: on the flat backend no saveTask is lost: once no call is suspended,
\* the stored list holds every task whose saveTask has resolved, also when
\* the calls overlapped.
C26_NoLostUpdate ==
    smSaving = {} => \A id \in savedIds : HasId(FlatRead(flat.tasks), id)

\* the number of entries of the list that are this task
Count(list, task) == Cardinality({i \in 1..Len(list) : list[i] = task})

\* C27: the task list of TaskManager never holds two entries with the same
\* id, and when a saveTask completes the list holds the saved task exactly
\* once, also when the modal was opened or closed while the call was
\* suspended.
C27_TaskListConsistent ==
    /\ [](\A i, j \in 1..Len(tmTasks) : i # j => tmTasks[i].id # tmTasks[j].id)
    /\ [][(TmSaveTaskDone /\ tmCall.pc = "resolved")
            => Count(tmTasks', tmCall.task) = 1]_vars

\* C28: an overdue task gets at most one 'Task Overdue!' notification until
\* it is snoozed, however the runs of checkOverdueTasks and the saves of
\* TaskManager interleave.
C28_OverdueNotifiedOnce == \A id \in NmIds : overdueShown[id] <= 1

\* the step is a saveTask of the facade that the remote has answered
SavedRemotely == /\ Len(trail') = Len(trail) + 1
                 /\ Back(0)'.kind = "saveTask"
                 /\ Back(0)'.on

\* C29: on the remote store, saving a task that carries the id of an
\* existing row, as the server returned it, updates that row and leaves the
\* number of rows as it was; a row is added only for a task whose id is not
\* the id of a row.
C29_SaveExistingUpdates ==
    [][SavedRemotely =>
         IF HasRow(table.tasks, Back(0)'.id)
         THEN /\ Len(table'.tasks) = Len(table.tasks)
              /\ RowOf(table'.tasks, Back(0)'.id).title = Back(0)'.title
         ELSE Back(0)'.id # NoId => Len(table'.tasks) = Len(table.tasks)]_vars

\* C30: after any number of createAutoBackup runs at most 5 automatic
\* backups are held, and every backup that was removed is older than every
\* backup that is kept.
C30_FiveLatestBackups ==
    /\ Cardinality(lsBackups) <= 5
    /\ \A t \in lsBackups : bkDropped < t

\* five backups are held after a sixth was written and the oldest removed,
\* with keys that differ in their first digit
C30_Witness ==
    /\ Cardinality(lsBackups) = 5
    /\ bkDropped > 0
    /\ \E t, u \in lsBackups : Head(Decimal(t)) # Head(Decimal(u))
====
